---- MODULE Spec2Model ----
(***************************************************************************)
(* Model of the skew acquisition/computation engine of vol-dashboard:      *)
(*   server/src/services/tastytrade.ts  (cleanupStreamer, authenticate,    *)
(*       streamSkewCalculation: Phase 1, strike filter, Phase 2)           *)
(*   server/src/routes/api.ts           (GET /stream-skew/:symbol,         *)
(*       GET /stream-batch close handler, POST /cleanup, skewCache)        *)
(*                                                                         *)
(* Deltas are integers in hundredths (0.20 is 20); open interest is a      *)
(* natural number.  One action is the code between two suspension points   *)
(* of the event loop (a network await, a timer, an inbound feed message,   *)
(* a request, a client disconnect).                                        *)
(***************************************************************************)
EXTENDS Integers, Sequences, FiniteSets, TLC

\* ------------------------------------------------------------ bounds
\* Number of feed messages delivered in one behaviour.
MaxMsgs == 2
\* Longest delta map the strike filter is checked on (SpecSelect).
MaxMapLen == 3
\* Longest expirations list of a venue response (SpecChain).
MaxExps == 3
\* Longest symbol list of a batch (SpecBatch).
MaxBatchLen == 3
\* Last clock reading of a behaviour of the cache on its own (SpecCache).
MaxClock == 3
\* Largest ttlMs argument passed to set (SpecCache).
MaxTtl == 2

\* ------------------------------------------------- program constants
\* const targetDte = 30
TargetDte == 30
\* new MemoryCache<any>(60 * 60 * 1000): one hour, in clock units of 20 minutes
DefaultTtl == 3
\* delta >= 0.10 && delta <= 0.30 ; delta <= -0.10 && delta >= -0.30
BandLo == 10
BandHi == 30
\* Math.abs(a.delta - 0.20)
TargetDelta == 20

\* ------------------------------------------------------- small sets
\* Streamer symbols of the option chain, and one the chain does not hold.
CallIds == {"C1", "C2"}
PutIds == {"P1", "P2"}
Ids == CallIds \cup PutIds \cup {"Z"}
\* chainResult.symbols of a resolved chain (strike order: call, put, ...).
ChainFull == <<"C1", "P1", "C2", "P2">>

Reqs == {"r1", "r2"}
\* A pipeline run is one call of streamSkewCalculation: the i-th of request q.
RunIdx == 1..MaxBatchLen
RunIds == Reqs \X RunIdx
ReqOf(r) == r[1]

NoTimer == <<>>
NoHandler == <<>>
\* An object with no keys.
EmptyMap == [x \in {} |-> 0]
\* obj[key] = value
Put(obj, key, value) ==
    [k \in DOMAIN obj \cup {key} |-> IF k = key THEN value ELSE obj[k]]

\* ------------------------------------------------------ pure helpers
Abs(x) == IF x < 0 THEN -x ELSE x

Range(s) == {s[i] : i \in 1..Len(s)}

RECURSIVE SumOver(_, _)
\* Sum of f[x] over the finite set S.
SumOver(f, S) ==
    IF S = {} THEN 0
    ELSE LET x == CHOOSE y \in S : TRUE
         IN f[x] + SumOver(f, S \ {x})

\* ------------------------------------------------- the strike filter
\* An entry of Object.entries(deltaMap): [symbol, delta].
IsCallCandidate(e) == e.delta >= BandLo /\ e.delta <= BandHi
IsPutCandidate(e) == e.delta <= -BandLo /\ e.delta >= -BandHi

\* The call comparator without Math.abs.
CallDist_signed(e) == e.delta - TargetDelta

\* The comparator key of the two sorts.
CallDist(e) == Abs(e.delta - TargetDelta)
PutDist(e) == Abs(e.delta - (-TargetDelta))
Dist(e, side) == IF side = "call" THEN CallDist(e) ELSE PutDist(e)

\* Array.prototype.sort is stable: e goes after every element whose key is
\* not larger than its own.
RECURSIVE InsertSorted(_, _, _)
InsertSorted(e, s, side) ==
    IF s = <<>> THEN <<e>>
    ELSE IF Dist(e, side) < Dist(Head(s), side) THEN <<e>> \o s
         ELSE <<Head(s)>> \o InsertSorted(e, Tail(s), side)

RECURSIVE SortBy(_, _)
SortBy(s, side) ==
    IF s = <<>> THEN <<>>
    ELSE InsertSorted(s[Len(s)], SortBy(SubSeq(s, 1, Len(s) - 1), side), side)

callCandidates(deltaMap) == SortBy(SelectSeq(deltaMap, IsCallCandidate), "call")
putCandidates(deltaMap) == SortBy(SelectSeq(deltaMap, IsPutCandidate), "put")

Min(a, b) == IF a < b THEN a ELSE b

balancedCount(deltaMap) ==
    Min(Len(callCandidates(deltaMap)), Len(putCandidates(deltaMap)))

\* The put side without its slice.
selectedPuts_unsliced(deltaMap) == putCandidates(deltaMap)

\* Before the filter step has run.
NoSelection == [calls |-> <<>>, puts |-> <<>>]

\* slice(0, balancedCount)
selectedCalls(deltaMap) == SubSeq(callCandidates(deltaMap), 1, balancedCount(deltaMap))
selectedPuts(deltaMap) == SubSeq(putCandidates(deltaMap), 1, balancedCount(deltaMap))

SymbolsOf(s) == [i \in 1..Len(s) |-> s[i].symbol]

filteredSymbols(deltaMap) ==
    SymbolsOf(selectedCalls(deltaMap)) \o SymbolsOf(selectedPuts(deltaMap))

\* deltas[sym] = delta on a JS object: an existing key keeps its place in
\* the insertion order, a new key goes last.
RECURSIVE SetDelta(_, _, _)
SetDelta(m, sym, d) ==
    IF m = <<>> THEN <<[symbol |-> sym, delta |-> d]>>
    ELSE IF Head(m).symbol = sym THEN <<[symbol |-> sym, delta |-> d]>> \o Tail(m)
         ELSE <<Head(m)>> \o SetDelta(Tail(m), sym, d)


\* --------------------------------------------------- feed messages
\* One inbound message is an array of events (Array.isArray(json)).
Greeks(sym, d) == [eventSymbol |-> sym, eventType |-> "Greeks", delta |-> d]
GreeksNoDelta(sym) == [eventSymbol |-> sym, eventType |-> "Greeks"]
Summary(sym, n) == [eventSymbol |-> sym, eventType |-> "Summary", openInterest |-> n]
\* The same events with the value inside event.greeks / event.summary.
GreeksNested(sym, d) == [eventSymbol |-> sym, eventType |-> "Greeks", greeks |-> [delta |-> d]]
SummaryNested(sym, n) ==
    [eventSymbol |-> sym, eventType |-> "Summary", summary |-> [openInterest |-> n]]

GreeksMsgs ==
    { \* two call and two put candidates
      <<Greeks("C1", 20), Greeks("P1", -20), Greeks("C2", 25), Greeks("P2", -12)>>,
      \* two call candidates and one put candidate; P2 out of band, Z not in the chain
      <<Greeks("C2", 12), Greeks("C1", 20), Greeks("P1", -20), Greeks("P2", -35),
        Greeks("Z", 20), GreeksNoDelta("P2")>>,
      \* a call candidate and no put candidate
      <<Greeks("C1", 30), Greeks("P1", -9)>> }
SummaryMsgs ==
    { <<Summary("C1", 100), Summary("P1", 150), Summary("C2", 50), Summary("P2", 30)>>,
      <<Summary("C1", 0), Summary("C2", 50), Summary("P1", 40), Summary("P2", 30),
        Summary("Z", 70)>> }
Messages == GreeksMsgs \cup SummaryMsgs

\* typeof x === 'number' for an optional field.
HasNumber(e, f) == f \in DOMAIN e

\* a || b for an optional number a = e[outer][f] and an optional number
\* b = e[f]: a when it is a number other than 0, otherwise b.  The value is
\* <<x>> for the number x and <<>> for undefined.
NestedOrFlat(e, outer, f) ==
    IF outer \in DOMAIN e /\ f \in DOMAIN e[outer] /\ e[outer][f] # 0 THEN <<e[outer][f]>>
    ELSE IF HasNumber(e, f) THEN <<e[f]>>
    ELSE <<>>

\* const delta = event.greeks?.delta || event.delta
eventDelta(e) == NestedOrFlat(e, "greeks", "delta")
\* const oi = event.summary?.openInterest || event.openInterest
eventOi(e) == NestedOrFlat(e, "summary", "openInterest")

\* onDeltaMessage, one event: records the delta of a chain symbol.
onDeltaEvent(deltas, chainSymbols, e) ==
    IF e.eventSymbol \notin Range(chainSymbols) THEN deltas
    ELSE IF (e.eventType = "Greeks" \/ "greeks" \in DOMAIN e) /\ eventDelta(e) # <<>>
         THEN SetDelta(deltas, e.eventSymbol, eventDelta(e)[1])
         ELSE deltas

RECURSIVE onDeltaMessage(_, _, _)
onDeltaMessage(deltas, chainSymbols, json) ==
    IF json = <<>> THEN deltas
    ELSE onDeltaMessage(onDeltaEvent(deltas, chainSymbols, Head(json)),
                        chainSymbols, Tail(json))

\* onOiMessage, one event: records the open interest of a selected symbol.
onOiEvent(store, e) ==
    IF e.eventSymbol \notin DOMAIN store THEN store
    ELSE IF (e.eventType \in {"Summary", "Quote"} \/ "summary" \in DOMAIN e)
            /\ eventOi(e) # <<>>
         THEN [store EXCEPT ![e.eventSymbol] =
                  [delta |-> store[e.eventSymbol].delta, oi |-> eventOi(e)[1]]]
         ELSE store

RECURSIVE onOiMessage(_, _)
onOiMessage(store, json) ==
    IF json = <<>> THEN store
    ELSE onOiMessage(onOiEvent(store, Head(json)), Tail(json))

\* dataStore[sym] = { delta: deltaMap[sym] } for sym of filteredSymbols
DeltaOf(deltaMap, sym) ==
    LET i == CHOOSE j \in 1..Len(deltaMap) : deltaMap[j].symbol = sym
    IN deltaMap[i].delta

newDataStore(deltaMap) ==
    [sym \in Range(filteredSymbols(deltaMap)) |-> [delta |-> DeltaOf(deltaMap, sym)]]

\* ------------------------------------------- Phase 2 aggregation
\* The same test without data.oi > 0.
Counted_any(d) == "delta" \in DOMAIN d /\ "oi" \in DOMAIN d

\* data.delta !== undefined && data.oi !== undefined && data.oi > 0
Counted(d) == "delta" \in DOMAIN d /\ "oi" \in DOMAIN d /\ d.oi > 0
CountedCall(d) == Counted(d) /\ d.delta >= BandLo /\ d.delta <= BandHi
CountedPut(d) == Counted(d) /\ d.delta <= -BandLo /\ d.delta >= -BandHi

callOiSum(store) ==
    SumOver([s \in DOMAIN store |-> IF CountedCall(store[s]) THEN store[s].oi ELSE 0],
            DOMAIN store)
putOiSum(store) ==
    SumOver([s \in DOMAIN store |-> IF CountedPut(store[s]) THEN store[s].oi ELSE 0],
            DOMAIN store)
callCount(store) == Cardinality({s \in DOMAIN store : CountedCall(store[s])})
putCount(store) == Cardinality({s \in DOMAIN store : CountedPut(store[s])})
\* avgCallDelta / avgPutDelta before the division: sum of delta * oi
callDeltaSum(store) ==
    SumOver([s \in DOMAIN store |->
                IF CountedCall(store[s]) THEN store[s].delta * store[s].oi ELSE 0],
            DOMAIN store)
putDeltaSum(store) ==
    SumOver([s \in DOMAIN store |->
                IF CountedPut(store[s]) THEN store[s].delta * store[s].oi ELSE 0],
            DOMAIN store)

RECURSIVE Gcd(_, _)
Gcd(a, b) == IF b = 0 THEN a ELSE Gcd(b, a % b)

\* The quotient n / d (d > 0) as a fraction in lowest terms.
Quot(n, d) ==
    LET g == Gcd(Abs(n), d)
    IN [num |-> n \div g, den |-> d \div g]

\* if (callOiSum > 0) avgCallDelta /= callOiSum
avgCallDelta(store) ==
    IF callOiSum(store) > 0 THEN Quot(callDeltaSum(store), callOiSum(store))
    ELSE Quot(callDeltaSum(store), 1)
\* if (putOiSum > 0) avgPutDelta /= putOiSum
avgPutDelta(store) ==
    IF putOiSum(store) > 0 THEN Quot(putDeltaSum(store), putOiSum(store))
    ELSE Quot(putDeltaSum(store), 1)

\* The quotient taken the other way round.
skewOf_inverted(store) == Quot(callOiSum(store), putOiSum(store))

\* const skew = putOiSum / callOiSum
skewOf(store) == Quot(putOiSum(store), callOiSum(store))

\* The SkewResult the Phase-2 timer resolves with.
SkewResult(store) ==
    [skew |-> skewOf(store),
     callOi |-> callOiSum(store),
     putOi |-> putOiSum(store),
     callDelta |-> avgCallDelta(store),
     putDelta |-> avgPutDelta(store),
     callCount |-> callCount(store),
     putCount |-> putCount(store)]

\* The test on the put side alone.
phase2Resolves_putOnly(store) == putOiSum(store) > 0

\* if (callOiSum > 0 && putOiSum > 0) resolve(...) else reject(...)
phase2Resolves(store) == callOiSum(store) > 0 /\ putOiSum(store) > 0

\* The events streamSkewCalculation hands to onProgress.
ChainEvent == [type |-> "chain"]
Phase1Event == [type |-> "phase1"]
\* A second phase1 event in the place of the phase2 event.
Phase2Event_phase1Again == [type |-> "phase1"]
Phase2Event == [type |-> "phase2"]
ResultEvent(store) == [type |-> "result", data |-> SkewResult(store)]
ErrorEvent(text) == [type |-> "error", message |-> [text |-> text]]
\* `Timeout: Got OI for ${callCount} calls and ${putCount} puts`
TimeoutEvent(store) ==
    [type |-> "error",
     message |-> [text |-> "Timeout: Got OI for", calls |-> callCount(store),
                  puts |-> putCount(store)]]

phase2Outcome(store) ==
    IF phase2Resolves(store) THEN ResultEvent(store) ELSE TimeoutEvent(store)

\* ------------------------------------------------------------ state
VARIABLES
    credsOk,                   \* TASTY_CLIENT_SECRET and TASTY_REFRESH_TOKEN are set
    client,                    \* client !== null
    currentSubscribedSymbols,  \* tracked subscription list
    currentEventHandler,       \* tracked listener, or NoHandler
    currentTimeout,            \* tracked timer handle, or NoTimer
    feedConnected,             \* quoteStreamer: the WebSocket is open
    feedSubs,                  \* quoteStreamer: <<id, <<run, phase>>>>, id subscribed (by)
    feedListeners,             \* quoteStreamer: registered listeners <<run, phase>>
    timers,                    \* event loop: scheduled setTimeout handles <<run, phase>>
    pc,                        \* per run: where streamSkewCalculation is suspended
    chain,                     \* per run: chainResult.symbols
    deltas,                    \* per run: the Phase-1 closure's deltas object
    filtered,                  \* per run: selectedCalls and selectedPuts
    dataStore,                 \* per run: the Phase-2 closure's dataStore
    progress,                  \* per run: the events handed to onProgress, in order
    heldAtEnd,                 \* per run: what it held on the feed when its terminal event was handed over
    reqKind,                   \* per request: "none", "single" or "batch"
    reqState,                  \* per request: "new", "open" (streaming) or "ended"
    reqSymbols,                \* per request: the requested symbols, in order
    closeState,                \* per request: 'close' handler "none", "armed", "fired"
    sent,                      \* per request: the events written to the response
    results,                   \* per batch: results[symbol]
    errors,                    \* per batch: errors[symbol]
    skewCache,                 \* MemoryCache: cache key -> entry or NoEntry
    history,                   \* the snapshots saveSkewSnapshot was called with
    msgCount,                  \* feed messages delivered so far
    now,                       \* Date.now(), in clock units
    lastGet,                   \* the last direct skewCache.get: key, time and returned value
    lastSet,                   \* the last direct skewCache.set still in force: key, data, time, ttl
    lastOp,                    \* the delete, clear or sweep just made, if nothing came after it
    dbDone,                    \* the saveSkewSnapshot calls whose database write has settled
    fetched,                   \* the last venue response fetchOptionChain worked on, and its outcome
    lastCleanup,               \* the last cleanupStreamer call in which the feed threw
    heard                      \* the feed events delivered to listeners, in order, where they are logged

feedVars == <<feedConnected, feedSubs, feedListeners>>
trackVars == <<currentSubscribedSymbols, currentEventHandler, currentTimeout>>
globalVars == <<client, trackVars, feedVars, timers>>
runVars == <<pc, chain, deltas, filtered, dataStore, progress, heldAtEnd>>
reqVars == <<reqKind, reqState, reqSymbols, closeState, sent, results, errors>>
clockVars == <<now, lastGet, lastSet, lastOp, dbDone, fetched, lastCleanup, heard>>
vars == <<credsOk, globalVars, runVars, reqVars, skewCache, history, msgCount, clockVars>>

\* A symbol is the sequence of its characters.
SPY == <<"S", "P", "Y">>
SlashES == <<"/", "E", "S">>
ES == <<"E", "S">>
LowerCase == <<"a", "b", "c", "d", "e", "f", "g", "h", "i", "j", "k", "l", "m",
               "n", "o", "p", "q", "r", "s", "t", "u", "v", "w", "x", "y", "z">>
UpperCase == <<"A", "B", "C", "D", "E", "F", "G", "H", "I", "J", "K", "L", "M",
               "N", "O", "P", "Q", "R", "S", "T", "U", "V", "W", "X", "Y", "Z">>
DigitChars == {"0", "1", "2", "3", "4", "5", "6", "7", "8", "9"}

\* symbol.toUpperCase()
toUpperCase(s) ==
    [i \in DOMAIN s |->
        IF \E j \in DOMAIN LowerCase : LowerCase[j] = s[i]
        THEN UpperCase[CHOOSE j \in DOMAIN LowerCase : LowerCase[j] = s[i]]
        ELSE s[i]]
\* .replace(/^\/+/, '')
RECURSIVE stripLeadingSlashes(_)
stripLeadingSlashes(s) ==
    IF s # <<>> /\ Head(s) = "/" THEN stripLeadingSlashes(Tail(s)) ELSE s

\* Requested symbols and their cache keys.
Symbols == {SPY, SlashES}
getCacheKey(symbol) == stripLeadingSlashes(toUpperCase(symbol))
CacheKeys == {getCacheKey(s) : s \in Symbols}
NoEntry == [present |-> FALSE]
\* No direct get has been made.
NoGet == [made |-> FALSE]
\* No direct set is in force.
NoSet == [made |-> FALSE]
\* The last cache operation was not a delete, clear or sweep.
NoOp == [op |-> "none"]
\* fetchOptionChain has not been given a venue response.
NoFetch == [made |-> FALSE]
\* In no cleanupStreamer call has the feed thrown.
NoThrow == [called |-> FALSE]
\* The run has not handed over a terminal event.
NotEnded == [ended |-> FALSE]
\* The symbol a single-symbol request asks for.
SingleSymbols(q) == IF q = "r1" THEN {SPY} ELSE {SlashES}
\* The symbol lists a batch is requested with.
BatchLists == {<<SPY, SlashES>>}
\* The requests that may be batch requests.
BatchReqs == {"r1"}

\* The single-symbol route makes run <<q, 1>>; a batch makes run <<q, i>> for
\* its i-th symbol.
SingleRun(q) == <<q, 1>>
isClientConnected(q) == closeState[q] # "fired"

\* The module-level state cleanupStreamer works on, as one record.
Globals ==
    [client |-> client,
     currentSubscribedSymbols |-> currentSubscribedSymbols,
     currentEventHandler |-> currentEventHandler,
     currentTimeout |-> currentTimeout,
     feedConnected |-> feedConnected,
     feedSubs |-> feedSubs,
     feedListeners |-> feedListeners,
     timers |-> timers]

SetGlobals(g) ==
    /\ client' = g.client
    /\ currentSubscribedSymbols' = g.currentSubscribedSymbols
    /\ currentEventHandler' = g.currentEventHandler
    /\ currentTimeout' = g.currentTimeout
    /\ feedConnected' = g.feedConnected
    /\ feedSubs' = g.feedSubs
    /\ feedListeners' = g.feedListeners
    /\ timers' = g.timers

\* quoteStreamer.unsubscribe(ids): the ids leave the feed, whoever subscribed.
Unsubscribe(subs, ids) == {p \in subs : p[1] \notin Range(ids)}
\* quoteStreamer.subscribe(ids) called by run r in phase ph.
Subscribe(subs, ids, r, ph) == subs \cup {<<id, <<r, ph>>>> : id \in Range(ids)}

\* The assignment moved into the try block: skipped when the removal throws.
handlerAfterRemove_inTry(g, threw) == IF threw THEN g.currentEventHandler ELSE NoHandler
\* currentEventHandler = null, after the try/catch around removeEventListener
handlerAfterRemove(g, threw) == NoHandler

\* cleanupStreamer, up to its await of quoteStreamer.disconnect();
\* removeThrows and unsubThrows say whether removeEventListener and
\* unsubscribe throw (the feed is then left as it was).
cleanupStreamerWith(g, removeThrows, unsubThrows) ==
    IF ~g.client THEN g
    ELSE [g EXCEPT
            !.timers = IF g.currentTimeout # NoTimer
                       THEN g.timers \ {g.currentTimeout} ELSE g.timers,
            !.currentTimeout = NoTimer,
            !.feedListeners = IF g.currentEventHandler # NoHandler /\ ~removeThrows
                              THEN g.feedListeners \ {g.currentEventHandler}
                              ELSE g.feedListeners,
            !.currentEventHandler = IF g.currentEventHandler # NoHandler
                                    THEN handlerAfterRemove(g, removeThrows)
                                    ELSE NoHandler,
            !.feedSubs = IF unsubThrows THEN g.feedSubs
                         ELSE Unsubscribe(g.feedSubs, g.currentSubscribedSymbols),
            !.currentSubscribedSymbols = <<>>,
            !.feedConnected = FALSE]

\* cleanupStreamer when nothing throws.
cleanupStreamer(g) == cleanupStreamerWith(g, FALSE, FALSE)

\* authenticate: returns the client, creating it when the credentials are set;
\* throws when they are missing.
authenticateOk(g) == g.client \/ credsOk
authenticate(g) == [g EXCEPT !.client = TRUE]

\* The module state at server start.
InitGlobals ==
    [client |-> FALSE,
     currentSubscribedSymbols |-> <<>>,
     currentEventHandler |-> NoHandler,
     currentTimeout |-> NoTimer,
     feedConnected |-> FALSE,
     feedSubs |-> {},
     feedListeners |-> {},
     timers |-> {}]

SetGlobalsInit(g) ==
    /\ client = g.client
    /\ currentSubscribedSymbols = g.currentSubscribedSymbols
    /\ currentEventHandler = g.currentEventHandler
    /\ currentTimeout = g.currentTimeout
    /\ feedConnected = g.feedConnected
    /\ feedSubs = g.feedSubs
    /\ feedListeners = g.feedListeners
    /\ timers = g.timers

Init ==
    /\ credsOk \in BOOLEAN
    /\ SetGlobalsInit(InitGlobals)
    /\ pc = [r \in RunIds |-> "idle"]
    /\ chain = [r \in RunIds |-> <<>>]
    /\ deltas = [r \in RunIds |-> <<>>]
    /\ filtered = [r \in RunIds |-> NoSelection]
    /\ dataStore = [r \in RunIds |-> EmptyMap]
    /\ progress = [r \in RunIds |-> <<>>]
    /\ heldAtEnd = [r \in RunIds |-> NotEnded]
    /\ reqKind = [q \in Reqs |-> "none"]
    /\ reqState = [q \in Reqs |-> "new"]
    /\ reqSymbols = [q \in Reqs |-> <<>>]
    /\ closeState = [q \in Reqs |-> "none"]
    /\ sent = [q \in Reqs |-> <<>>]
    /\ results = [q \in Reqs |-> EmptyMap]
    /\ errors = [q \in Reqs |-> EmptyMap]
    /\ skewCache = [k \in CacheKeys |-> NoEntry]
    /\ history = {}
    /\ msgCount = 0
    /\ now = 0
    /\ lastGet = NoGet
    /\ lastSet = NoSet
    /\ lastOp = NoOp
    /\ dbDone = {}
    /\ fetched = NoFetch
    /\ lastCleanup = NoThrow
    /\ heard = <<>>

\* ------------------------------------------------ route callbacks
IsTerminal(e) == e.type \in {"result", "error"}
\* The error branch of the callback without its resolve().
HasTerminal_resultOnly(evs) == \E i \in 1..Len(evs) : evs[i].type = "result"
\* The callback of processSymbol calls resolve() on a result or an error.
HasTerminal(evs) == \E i \in 1..Len(evs) : IsTerminal(evs[i])

\* ------------------------------------------------------- MemoryCache
\* The ttlMs argument of set: not given, or a number.
NoTtl == [given |-> FALSE]
Ttl(n) == [given |-> TRUE, ms |-> n]
\* A set that ignores its ttlMs argument.
ttlOrDefault_defaultOnly(ttl) == DefaultTtl
\* ttlMs ?? this.defaultTtlMs
ttlOrDefault(ttl) == IF ttl.given THEN ttl.ms ELSE DefaultTtl

\* What get returns: null, or entry.data.
Absent == [found |-> FALSE]
Found(data) == [found |-> TRUE, data |-> data]

\* An expiry test that never fires.
isExpired_never(entry, t) == FALSE
\* The expiry test of get and cleanup.
isExpired(entry, t) == t > entry.expiresAt

\* MemoryCache.get at time t: the returned value and the cache afterwards.
mcGet(cache, key, t) ==
    IF ~cache[key].present THEN [value |-> Absent, cache |-> cache]
    ELSE IF isExpired(cache[key], t)
         THEN [value |-> Absent, cache |-> [cache EXCEPT ![key] = NoEntry]]
         ELSE [value |-> Found(cache[key].data), cache |-> cache]

\* MemoryCache.set at time t; by names the caller.
mcSet(cache, key, data, t, ttl, by) ==
    [cache EXCEPT ![key] = [present |-> TRUE, data |-> data,
                            expiresAt |-> t + ttlOrDefault(ttl), by |-> by]]

\* A delete that empties the whole map.
mcDelete_all(cache, key) == [k \in DOMAIN cache |-> NoEntry]
\* MemoryCache.delete
mcDelete(cache, key) == [cache EXCEPT ![key] = NoEntry]
\* MemoryCache.clear
mcClear(cache) == [k \in DOMAIN cache |-> NoEntry]
\* A cleanup that drops every entry.
mcCleanup_all(cache, t) == [k \in DOMAIN cache |-> NoEntry]
\* MemoryCache.cleanup at time t
mcCleanup(cache, t) ==
    [k \in DOMAIN cache |->
        IF cache[k].present /\ isExpired(cache[k], t) THEN NoEntry ELSE cache[k]]

\* A result that is not stored.
cacheSet_dropped(cache, key, data, r) == cache
\* skewCache.set(cacheKey, data), called for run r: the entry is replaced.
cacheSet(cache, key, data, r) == mcSet(cache, key, data, now, NoTtl, r)
\* A lookup that never finds anything.
cacheHit_never(cache, key) == FALSE
\* skewCache.get(cacheKey) finds an unexpired entry.
cacheHit(cache, key) == mcGet(cache, key, now).value.found
\* The cache after skewCache.get(cacheKey): an expired entry is gone.
cacheAfterGet(cache, key) == mcGet(cache, key, now).cache

\* saveSkewSnapshot(symbol, data), called for run r.
Snapshot(r, symbol, data) == [run |-> r, symbol |-> symbol, data |-> data]

\* Frames written to a response.
Frame(type) == [type |-> type]
Progress(symbol, status) == [type |-> "progress", symbol |-> symbol, status |-> status]
ProgressData(symbol, status, data) ==
    [type |-> "progress", symbol |-> symbol, status |-> status, data |-> data]
Complete(symbols, res, errs) ==
    [type |-> "complete",
     total |-> Len(symbols),
     successful |-> Cardinality(DOMAIN res),
     failed |-> Cardinality(DOMAIN errs)]

\* What a route handler and its callbacks work on during one step.
RouteState(q, g) ==
    [sent |-> sent[q], results |-> results[q], errors |-> errors[q],
     cache |-> skewCache, history |-> history, g |-> g, start |-> 0, ended |-> FALSE]

\* The progress callback of GET /stream-skew/:symbol, one event.
singleCallbackEvent(st, r, symbol, e) ==
    LET wrote == [st EXCEPT !.sent = @ \o <<Frame(e.type)>>]
    IN IF e.type = "result"
       THEN [wrote EXCEPT
                !.cache = cacheSet(@, getCacheKey(symbol), e.data, r),
                !.history = @ \cup {Snapshot(r, symbol, e.data)},
                !.sent = @ \o <<Frame("close")>>,
                !.ended = TRUE]
       ELSE IF e.type = "error"
            THEN [wrote EXCEPT !.sent = @ \o <<Frame("close")>>, !.ended = TRUE]
            ELSE wrote

\* The progress callback of processSymbol (client connected), one event.
batchCallbackEvent(st, r, symbol, e) ==
    IF e.type \in {"phase1", "phase2"}
    THEN [st EXCEPT !.sent = @ \o <<Progress(symbol, e.type)>>]
    ELSE IF e.type = "result"
         THEN [st EXCEPT
                  !.cache = cacheSet(@, getCacheKey(symbol), e.data, r),
                  !.history = @ \cup {Snapshot(r, symbol, e.data)},
                  !.results = Put(@, symbol, e.data),
                  !.sent = @ \o <<ProgressData(symbol, "complete", e.data)>>]
         ELSE IF e.type = "error"
              THEN [st EXCEPT
                       !.errors = Put(@, symbol, e.message.text),
                       !.sent = @ \o <<Progress(symbol, "error")>>]
              ELSE st

RECURSIVE routeCallback(_, _, _, _, _)
\* The callback of run r's route applied to the events of one step, in order.
routeCallback(st, kind, r, symbol, evs) ==
    IF evs = <<>> THEN st
    ELSE routeCallback(
            IF kind = "single" THEN singleCallbackEvent(st, r, symbol, Head(evs))
            ELSE batchCallbackEvent(st, r, symbol, Head(evs)),
            kind, r, symbol, Tail(evs))

\* The end of the loop without the complete event.
batchEnd_silent(symbols, st) == [st EXCEPT !.ended = TRUE]
\* After the loop: the complete event, the close frame, res.end().
batchEnd(symbols, st) ==
    [st EXCEPT
        !.sent = @ \o <<Complete(symbols, st.results, st.errors), Frame("close")>>,
        !.ended = TRUE]

\* An iteration that skips a symbol.
nextIndex_skip(i) == i + 2
\* for (const symbol of symbols): the position after i.
nextIndex(i) == i + 1

RECURSIVE runBatch(_, _, _)
\* runBatch from the i-th symbol on, in one turn of the event loop: cache hits
\* and authentication failures are settled at once; the first symbol that
\* needs the pipeline starts streamSkewCalculation, which suspends in
\* fetchOptionChain; past the last symbol the complete event is written.
runBatch(symbols, i, st) ==
    IF i > Len(symbols)
    THEN batchEnd(symbols, st)
    ELSE LET symbol == symbols[i]
             key == getCacheKey(symbol)
             sg == [st EXCEPT !.cache = cacheAfterGet(@, key)]
         IN IF cacheHit(st.cache, key)
            THEN runBatch(symbols, nextIndex(i),
                    [st EXCEPT !.sent = @ \o <<ProgressData(symbol, "cached", st.cache[key].data)>>,
                               !.results = Put(@, symbol, st.cache[key].data)])
            ELSE IF ~authenticateOk(st.g)
                 THEN runBatch(symbols, nextIndex(i),
                         [sg EXCEPT !.sent = @ \o <<Progress(symbol, "calculating"),
                                                    Progress(symbol, "error")>>,
                                    !.errors = Put(@, symbol, "Missing credentials")])
                 ELSE [sg EXCEPT !.sent = @ \o <<Progress(symbol, "calculating")>>,
                                 !.g = authenticate(cleanupStreamer(authenticate(@))),
                                 !.start = i]

\* The route state st becomes the state of request q.
ApplyRoute(q, st) ==
    /\ SetGlobals(st.g)
    /\ sent' = [sent EXCEPT ![q] = st.sent]
    /\ results' = [results EXCEPT ![q] = st.results]
    /\ errors' = [errors EXCEPT ![q] = st.errors]
    /\ skewCache' = st.cache
    /\ history' = st.history
    /\ reqState' = [reqState EXCEPT ![q] = IF st.ended THEN "ended" ELSE "open"]

\* A callback that never looks at the flag.
callbackSuppressed_never(q) == FALSE
\* if (!isClientConnected) { resolve(); return; } in the callback of processSymbol
callbackSuppressed(q) == reqKind[q] = "batch" /\ ~isClientConnected(q)

\* Run r hands the events evs to onProgress and goes on to nextPc, leaving the
\* module state as g.  After a terminal event of a batch whose client is
\* connected, processSymbol resolves and runBatch goes on with the next
\* symbol in the same turn.
Hand(r, g, evs, nextPc) ==
    LET q == ReqOf(r)
        symbol == reqSymbols[q][r[2]]
        st0 == RouteState(q, g)
        st1 == IF callbackSuppressed(q) THEN st0
               ELSE routeCallback(st0, reqKind[q], r, symbol, evs)
    IN \E st2 \in {IF reqKind[q] = "batch" /\ isClientConnected(q) /\ HasTerminal(evs)
                    THEN runBatch(reqSymbols[q], nextIndex(r[2]), st1)
                    ELSE st1} :
       /\ progress' = [progress EXCEPT ![r] = @ \o evs]
       /\ pc' = IF st2.start = 0 THEN [pc EXCEPT ![r] = nextPc]
                ELSE [pc EXCEPT ![r] = nextPc, ![<<q, st2.start>>] = "fetch"]
       /\ SetGlobals(st2.g)
       /\ sent' = [sent EXCEPT ![q] = st2.sent]
       /\ results' = [results EXCEPT ![q] = st2.results]
       /\ errors' = [errors EXCEPT ![q] = st2.errors]
       /\ skewCache' = st2.cache
       /\ history' = st2.history
       /\ reqState' = [reqState EXCEPT ![q] = IF st2.ended THEN "ended" ELSE @]

\* A step of run r that is not its last.
Step(r, g, evs, nextPc) == Hand(r, g, evs, nextPc) /\ UNCHANGED heldAtEnd

\* What run r has on the feed in the module state g.
HeldIn(g, r) ==
    [ended |-> TRUE,
     subs |-> \E id \in Ids, ph \in {1, 2} : <<id, <<r, ph>>>> \in g.feedSubs,
     listener |-> \E ph \in {1, 2} : <<r, ph>> \in g.feedListeners,
     timer |-> \E ph \in {1, 2} : <<r, ph>> \in g.timers]

\* The end of a run whose catch block also runs after the terminal event.
Finish_catchAgain(r, g, evs) ==
    /\ Hand(r, cleanupStreamer(g), evs \o <<ErrorEvent("Unknown error")>>, "done")
    /\ heldAtEnd' = [heldAtEnd EXCEPT ![r] = HeldIn(g, r)]

\* The run ends: the terminal event is handed over with the module state
\* as g, then the finally block runs cleanupStreamer.
Finish(r, g, evs) ==
    /\ Hand(r, cleanupStreamer(g), evs, "done")
    /\ heldAtEnd' = [heldAtEnd EXCEPT ![r] = HeldIn(g, r)]

\* ------------------------------------------------------- actions
\* GET /stream-skew/:symbol up to its first suspension: the cache check and,
\* on a miss, streamSkewCalculation up to the await of fetchOptionChain.
RequestSingle(q, symbol) ==
    LET r == SingleRun(q)
        g1 == cleanupStreamer(Globals)
    IN /\ reqState[q] = "new"
       /\ reqKind' = [reqKind EXCEPT ![q] = "single"]
       /\ reqSymbols' = [reqSymbols EXCEPT ![q] = <<symbol>>]
       /\ IF cacheHit(skewCache, getCacheKey(symbol))
          THEN /\ sent' = [sent EXCEPT ![q] = <<Frame("connected"), Frame("cached"),
                                                Frame("result"), Frame("close")>>]
               /\ reqState' = [reqState EXCEPT ![q] = "ended"]
               /\ UNCHANGED <<globalVars, pc, progress, heldAtEnd, closeState>>
          ELSE /\ closeState' = [closeState EXCEPT ![q] = "armed"]
               /\ IF authenticateOk(g1)
                  THEN /\ SetGlobals(authenticate(g1))
                       /\ pc' = [pc EXCEPT ![r] = "fetch"]
                       /\ sent' = [sent EXCEPT ![q] = <<Frame("connected")>>]
                       /\ reqState' = [reqState EXCEPT ![q] = "open"]
                       /\ UNCHANGED <<progress, heldAtEnd>>
                  ELSE \* authenticate throws: catch, then finally
                       /\ SetGlobals(cleanupStreamer(g1))
                       /\ pc' = [pc EXCEPT ![r] = "done"]
                       /\ progress' = [progress EXCEPT ![r] =
                                          <<ErrorEvent("Missing credentials")>>]
                       /\ heldAtEnd' = [heldAtEnd EXCEPT ![r] = HeldIn(g1, r)]
                       /\ sent' = [sent EXCEPT ![q] = <<Frame("connected"), Frame("error"),
                                                        Frame("close")>>]
                       /\ reqState' = [reqState EXCEPT ![q] = "ended"]
       /\ skewCache' = cacheAfterGet(skewCache, getCacheKey(symbol))
       /\ UNCHANGED <<clockVars, credsOk, chain, deltas, filtered, dataStore, results, errors,
                      history, msgCount>>

\* GET /stream-batch up to its first suspension.
RequestBatch(q, symbols) ==
    LET st0 == [RouteState(q, Globals) EXCEPT !.sent = <<Frame("connected")>>]
        st == runBatch(symbols, 1, st0)
    IN /\ reqState[q] = "new"
       /\ reqKind' = [reqKind EXCEPT ![q] = "batch"]
       /\ reqSymbols' = [reqSymbols EXCEPT ![q] = symbols]
       /\ closeState' = [closeState EXCEPT ![q] = "armed"]
       /\ ApplyRoute(q, st)
       /\ pc' = IF st.start = 0 THEN pc ELSE [pc EXCEPT ![<<q, st.start>>] = "fetch"]
       /\ UNCHANGED <<clockVars, credsOk, chain, deltas, filtered, dataStore, progress, heldAtEnd,
                      msgCount>>

FetchOutcomes == {"ok", "empty", "fail"}
\* chainResult.symbols: the streamer symbols collected from the strikes of
\* the chosen expiration, none when it has no strikes.
symbolsOf(outcome) == IF outcome = "empty" THEN <<>> ELSE ChainFull

\* The length test left out.
noSymbols_never(syms) == FALSE
\* if (chainResult.symbols.length === 0) throw
noSymbols(syms) == Len(syms) = 0

\* fetchOptionChain returns or throws.
FetchReturn(r, outcome) ==
    /\ pc[r] = "fetch"
    /\ IF outcome = "fail"
       THEN /\ Finish(r, Globals, <<ErrorEvent("No option chains found in response.")>>)
            /\ UNCHANGED chain
       ELSE IF noSymbols(symbolsOf(outcome))
       THEN /\ Finish(r, Globals, <<ChainEvent, ErrorEvent("No symbols found in option chain")>>)
            /\ UNCHANGED chain
       ELSE /\ chain' = [chain EXCEPT ![r] = symbolsOf(outcome)]
            /\ Step(r, Globals, <<ChainEvent>>, "connect")
    /\ UNCHANGED <<clockVars, credsOk, deltas, filtered, dataStore, reqKind, reqSymbols, closeState,
                   msgCount>>

\* Phase 1 is set up by run r: subscribe, listener, timer.
startPhase1(g, r, syms) ==
    [g EXCEPT
        !.feedConnected = TRUE,
        !.feedSubs = Subscribe(g.feedSubs, syms, r, 1),
        !.currentSubscribedSymbols = syms,
        !.currentEventHandler = <<r, 1>>,
        !.feedListeners = g.feedListeners \cup {<<r, 1>>},
        !.currentTimeout = <<r, 1>>,
        !.timers = g.timers \cup {<<r, 1>>}]

\* quoteStreamer.connect() returns (or throws).
ConnectReturn(r, ok) ==
    /\ pc[r] = "connect"
    /\ IF ok
       THEN Step(r, startPhase1(Globals, r, chain[r]), <<Phase1Event>>, "p1wait")
       ELSE Finish(r, Globals, <<ErrorEvent("connect failed")>>)
    /\ UNCHANGED <<clockVars, credsOk, chain, deltas, filtered, dataStore, reqKind, reqSymbols,
                   closeState, msgCount>>

\* The Phase-1 timer callback: the tracked listener is removed.
phase1TimerCallback(g, r) ==
    [g EXCEPT
        !.timers = g.timers \ {<<r, 1>>},
        !.feedListeners = IF g.currentEventHandler # NoHandler /\ g.client
                          THEN g.feedListeners \ {g.currentEventHandler}
                          ELSE g.feedListeners,
        !.currentEventHandler = NoHandler]

\* The phase transition without the unsubscribe of lines 359-367.
startPhase2_keepSubs(g, r, syms) ==
    [g EXCEPT
        !.feedSubs = Subscribe(g.feedSubs, syms, r, 2),
        !.currentSubscribedSymbols = syms,
        !.currentTimeout = <<r, 2>>,
        !.timers = g.timers \cup {<<r, 2>>},
        !.currentEventHandler = <<r, 2>>,
        !.feedListeners = g.feedListeners \cup {<<r, 2>>}]

\* The phase transition: unsubscribe what is tracked, subscribe the selection,
\* set the Phase-2 timer and listener.
startPhase2(g, r, syms) ==
    [g EXCEPT
        !.feedSubs = Subscribe(Unsubscribe(g.feedSubs, g.currentSubscribedSymbols), syms, r, 2),
        !.currentSubscribedSymbols = syms,
        !.currentTimeout = <<r, 2>>,
        !.timers = g.timers \cup {<<r, 2>>},
        !.currentEventHandler = <<r, 2>>,
        !.feedListeners = g.feedListeners \cup {<<r, 2>>}]

\* The length test left out.
noCandidates_never(syms) == FALSE

\* if (filteredSymbols.length === 0) throw
noCandidates(syms) == Len(syms) = 0

\* The Phase-1 timer of run r fires: the filter step, then Phase 2 or the
\* no-candidates error.
Phase1Timer(r) ==
    /\ <<r, 1>> \in timers
    /\ pc[r] = "p1wait"
    /\ \E g1 \in {phase1TimerCallback(Globals, r)}, syms \in {filteredSymbols(deltas[r])} :
       /\ filtered' = [filtered EXCEPT ![r] = [calls |-> selectedCalls(deltas[r]),
                                                puts |-> selectedPuts(deltas[r])]]
       /\ IF noCandidates(syms)
          THEN /\ Finish(r, g1, <<ErrorEvent("No options found in the 10-30 delta range")>>)
               /\ UNCHANGED dataStore
          ELSE /\ dataStore' = [dataStore EXCEPT ![r] = newDataStore(deltas[r])]
               /\ \E g2 \in {startPhase2(g1, r, syms)} :
                     Step(r, g2, <<Phase2Event>>, "p2wait")
       /\ UNCHANGED <<clockVars, credsOk, chain, deltas, reqKind, reqSymbols, closeState, msgCount>>

\* The Phase-2 timer of run r fires: aggregation, result or timeout error.
Phase2Timer(r) ==
    /\ <<r, 2>> \in timers
    /\ pc[r] = "p2wait"
    /\ \E e \in {phase2Outcome(dataStore[r])} :
          Finish(r, [Globals EXCEPT !.timers = timers \ {<<r, 2>>}], <<e>>)
    /\ UNCHANGED <<clockVars, credsOk, chain, deltas, filtered, dataStore, reqKind, reqSymbols,
                   closeState, msgCount>>

\* A Phase-2 listener that ends the window once it has recorded something.
pcAfterMessage_early(p, store) ==
    IF p = "p2wait" /\ \E sym \in DOMAIN store : "oi" \in DOMAIN store[sym] THEN "done" ELSE p
\* onDeltaMessage and onOiMessage only record: neither calls resolve or
\* reject, so the run stays where it is suspended.
pcAfterMessage(p, store) == p

\* The feed pushes one message to every registered listener.
Deliver(json) ==
    /\ msgCount < MaxMsgs
    /\ feedConnected
    /\ feedListeners # {}
    /\ msgCount' = msgCount + 1
    /\ deltas' = [r \in RunIds |->
                    IF <<r, 1>> \in feedListeners /\ pc[r] = "p1wait"
                    THEN onDeltaMessage(deltas[r], chain[r], json) ELSE deltas[r]]
    /\ dataStore' = [r \in RunIds |->
                    IF <<r, 2>> \in feedListeners /\ pc[r] = "p2wait"
                    THEN onOiMessage(dataStore[r], json) ELSE dataStore[r]]
    /\ pc' = [r \in RunIds |-> pcAfterMessage(pc[r], dataStore'[r])]
    /\ UNCHANGED <<now, lastGet, lastSet, lastOp, dbDone, fetched, lastCleanup, credsOk,
                   globalVars, chain, filtered, progress, heldAtEnd, reqVars, skewCache, history>>

FeedMessage(json) == Deliver(json) /\ UNCHANGED heard

\* req.on('close') of GET /stream-skew/:symbol: the client went away, or the
\* response ended.
CloseSingle(q) ==
    /\ reqKind[q] = "single"
    /\ closeState[q] = "armed"
    /\ closeState' = [closeState EXCEPT ![q] = "fired"]
    /\ SetGlobals(cleanupStreamer(Globals))
    /\ UNCHANGED <<clockVars, credsOk, runVars, reqKind, reqState, reqSymbols, sent, results, errors,
                   skewCache, history, msgCount>>

\* req.on('close') of GET /stream-batch: isClientConnected = false, then
\* cleanupStreamer().
CloseBatch(q) ==
    /\ reqKind[q] = "batch"
    /\ closeState[q] = "armed"
    /\ closeState' = [closeState EXCEPT ![q] = "fired"]
    /\ SetGlobals(cleanupStreamer(Globals))
    /\ UNCHANGED <<clockVars, credsOk, runVars, reqKind, reqState, reqSymbols, sent, results, errors,
                   skewCache, history, msgCount>>

\* POST /cleanup
CleanupEndpoint ==
    /\ Globals # cleanupStreamer(Globals)
    /\ SetGlobals(cleanupStreamer(Globals))
    /\ UNCHANGED <<clockVars, credsOk, runVars, reqVars, skewCache, history, msgCount>>

Next ==
    \/ \E q \in Reqs : \E symbol \in SingleSymbols(q) : RequestSingle(q, symbol)
    \/ \E q \in BatchReqs, symbols \in BatchLists : RequestBatch(q, symbols)
    \/ \E r \in RunIds, o \in FetchOutcomes : FetchReturn(r, o)
    \/ \E r \in RunIds, ok \in BOOLEAN : ConnectReturn(r, ok)
    \/ \E r \in RunIds : Phase1Timer(r)
    \/ \E r \in RunIds : Phase2Timer(r)
    \/ \E json \in Messages : FeedMessage(json)
    \/ \E q \in Reqs : CloseSingle(q)
    \/ \E q \in BatchReqs : CloseBatch(q)
    \/ CleanupEndpoint

Spec == Init /\ [][Next]_vars

\* Network calls return and scheduled timers fire.
Fairness ==
    \A r \in RunIds :
        /\ WF_vars(\E o \in FetchOutcomes : FetchReturn(r, o))
        /\ WF_vars(\E ok \in BOOLEAN : ConnectReturn(r, ok))
        /\ WF_vars(Phase1Timer(r))
        /\ WF_vars(Phase2Timer(r))

FairSpec == Spec /\ Fairness

\* ----------------------------------------- the strike filter alone
\* Deltas the filter is checked on: in and out of both bands, their edges,
\* and pairs at equal distance from the target.
DeltaVals == {-30, -22, -18, -9, 10, 18, 22, 31}
Entries == [symbol : Range(ChainFull), delta : DeltaVals]
\* The delta maps of n keys Phase 1 can end with: insertion-ordered, one entry
\* per symbol.
DeltaMaps(n) ==
    {m \in [1..n -> Entries] : \A i, j \in 1..n : i # j => m[i].symbol # m[j].symbol}

\* Run <<"r1", 1>> of a single-symbol request is in its Phase-1 window, with
\* any delta map collected.
InitSelect ==
    LET r == SingleRun("r1")
    IN /\ credsOk = TRUE
       /\ SetGlobalsInit(startPhase1(authenticate(InitGlobals), r, ChainFull))
       /\ pc = [x \in RunIds |-> IF x = r THEN "p1wait" ELSE "idle"]
       /\ chain = [x \in RunIds |-> IF x = r THEN ChainFull ELSE <<>>]
       /\ \E n \in 0..MaxMapLen : \E m \in DeltaMaps(n) :
             deltas = [x \in RunIds |-> IF x = r THEN m ELSE <<>>]
       /\ filtered = [x \in RunIds |-> NoSelection]
       /\ dataStore = [x \in RunIds |-> EmptyMap]
       /\ progress = [x \in RunIds |-> IF x = r THEN <<ChainEvent, Phase1Event>> ELSE <<>>]
       /\ heldAtEnd = [x \in RunIds |-> NotEnded]
       /\ reqKind = [q \in Reqs |-> IF q = "r1" THEN "single" ELSE "none"]
       /\ reqState = [q \in Reqs |-> IF q = "r1" THEN "open" ELSE "new"]
       /\ reqSymbols = [q \in Reqs |-> IF q = "r1" THEN <<SPY>> ELSE <<>>]
       /\ closeState = [q \in Reqs |-> IF q = "r1" THEN "armed" ELSE "none"]
       /\ sent = [q \in Reqs |-> IF q = "r1"
                                 THEN <<Frame("connected"), Frame("chain"), Frame("phase1")>>
                                 ELSE <<>>]
       /\ results = [q \in Reqs |-> EmptyMap]
       /\ errors = [q \in Reqs |-> EmptyMap]
       /\ skewCache = [k \in CacheKeys |-> NoEntry]
       /\ history = {}
       /\ msgCount = 0
       /\ now = 0
       /\ lastGet = NoGet
       /\ lastSet = NoSet
       /\ lastOp = NoOp
       /\ dbDone = {}
       /\ fetched = NoFetch
       /\ lastCleanup = NoThrow
       /\ heard = <<>>

NextSelect == \E r \in RunIds : Phase1Timer(r)

SpecSelect == InitSelect /\ [][NextSelect]_vars

\* ------------------------------------------------- one batch alone
\* The symbol lists of at most MaxBatchLen symbols, repeats included.
SymbolLists == UNION {[1..n -> Symbols] : n \in 1..MaxBatchLen}

\* A result computed earlier.
EarlierResult ==
    SkewResult([x \in {"C1", "P1"} |->
                   IF x = "C1" THEN [delta |-> 20, oi |-> 100] ELSE [delta |-> -20, oi |-> 150]])
\* What the cache may hold for a key when a request arrives: nothing, an
\* entry that has expired, or one that has not.
EarlierEntries ==
    {NoEntry} \cup {[present |-> TRUE, data |-> EarlierResult, expiresAt |-> t, by |-> <<>>] :
                       t \in {-1, 1}}

\* Server state when a batch request arrives and nothing else is running.
InitBatch ==
    /\ credsOk \in BOOLEAN
    /\ SetGlobalsInit(InitGlobals)
    /\ pc = [r \in RunIds |-> "idle"]
    /\ chain = [r \in RunIds |-> <<>>]
    /\ deltas = [r \in RunIds |-> <<>>]
    /\ filtered = [r \in RunIds |-> NoSelection]
    /\ dataStore = [r \in RunIds |-> EmptyMap]
    /\ progress = [r \in RunIds |-> <<>>]
    /\ heldAtEnd = [r \in RunIds |-> NotEnded]
    /\ reqKind = [q \in Reqs |-> "none"]
    /\ reqState = [q \in Reqs |-> "new"]
    /\ reqSymbols = [q \in Reqs |-> <<>>]
    /\ closeState = [q \in Reqs |-> "none"]
    /\ sent = [q \in Reqs |-> <<>>]
    /\ results = [q \in Reqs |-> EmptyMap]
    /\ errors = [q \in Reqs |-> EmptyMap]
    /\ skewCache \in [CacheKeys -> EarlierEntries]
    /\ history = {}
    /\ msgCount = 0
    /\ now = 0
    /\ lastGet = NoGet
    /\ lastSet = NoSet
    /\ lastOp = NoOp
    /\ dbDone = {}
    /\ fetched = NoFetch
    /\ lastCleanup = NoThrow
    /\ heard = <<>>

NextBatch ==
    \/ \E q \in BatchReqs, symbols \in SymbolLists : RequestBatch(q, symbols)
    \/ \E r \in RunIds, o \in FetchOutcomes : FetchReturn(r, o)
    \/ \E r \in RunIds, ok \in BOOLEAN : ConnectReturn(r, ok)
    \/ \E r \in RunIds : Phase1Timer(r)
    \/ \E r \in RunIds : Phase2Timer(r)
    \/ \E json \in Messages : FeedMessage(json)
    \/ \E q \in BatchReqs : CloseBatch(q)

SpecBatch == InitBatch /\ [][NextBatch]_vars

\* Network calls return and scheduled timers fire; one batch has at most one
\* run in flight, so fairness per kind of step is fairness for that run.
FairnessBatch ==
    /\ WF_vars(\E r \in RunIds, o \in FetchOutcomes : FetchReturn(r, o))
    /\ WF_vars(\E r \in RunIds, ok \in BOOLEAN : ConnectReturn(r, ok))
    /\ WF_vars(\E r \in RunIds : Phase1Timer(r))
    /\ WF_vars(\E r \in RunIds : Phase2Timer(r))

FairBatchSpec == SpecBatch /\ FairnessBatch

\* ------------------------------------------------------- observations
EventTypes(evs) == {evs[i].type : i \in DOMAIN evs}

\* Run r has gone through the filter step (the only way out of the Phase-1
\* window is its timer).
FilterDone(r) == "phase1" \in EventTypes(progress[r]) /\ pc[r] \in {"p2wait", "done"}

\* The candidates of run r, read off its delta map.
CallCands(r) ==
    {deltas[r][i] : i \in {j \in DOMAIN deltas[r] :
        deltas[r][j].delta >= 10 /\ deltas[r][j].delta <= 30}}
PutCands(r) ==
    {deltas[r][i] : i \in {j \in DOMAIN deltas[r] :
        deltas[r][j].delta <= -10 /\ deltas[r][j].delta >= -30}}

\* Run r has set up something of Phase 2.
Phase2Begun(r) ==
    \/ "phase2" \in EventTypes(progress[r])
    \/ <<r, 2>> \in timers
    \/ <<r, 2>> \in feedListeners
    \/ \E id \in Ids : <<id, <<r, 2>>>> \in feedSubs
    \/ dataStore[r] # EmptyMap

\* The Phase-2 timer of run r has fired (the only way out of the window).
Phase2Fired(r) == "phase2" \in EventTypes(progress[r]) /\ pc[r] = "done"

LastEvent(r) == progress[r][Len(progress[r])]

\* The open interest recorded for a selected identifier that counts.
SelCallSyms(r) == {x.symbol : x \in Range(filtered[r].calls)}
SelPutSyms(r) == {x.symbol : x \in Range(filtered[r].puts)}
RecordedOi(r, sym) ==
    IF sym \in DOMAIN dataStore[r] /\ "oi" \in DOMAIN dataStore[r][sym]
       /\ dataStore[r][sym].oi > 0
    THEN dataStore[r][sym].oi ELSE 0
CallOiTotal(r) == SumOver([sym \in SelCallSyms(r) |-> RecordedOi(r, sym)], SelCallSyms(r))
PutOiTotal(r) == SumOver([sym \in SelPutSyms(r) |-> RecordedOi(r, sym)], SelPutSyms(r))
CallsWithData(r) == Cardinality({sym \in SelCallSyms(r) : RecordedOi(r, sym) > 0})
PutsWithData(r) == Cardinality({sym \in SelPutSyms(r) : RecordedOi(r, sym) > 0})

ResultsOf(r) == {progress[r][i].data : i \in {j \in DOMAIN progress[r] :
                                                progress[r][j].type = "result"}}

\* --------------------------------------------------------- properties

\* C1: after the filter step the selected calls and the selected puts are
\* equally many, and that number is the smaller of the two candidate counts.
C1_BalancedSelection ==
    \A r \in RunIds :
        FilterDone(r) =>
            /\ Len(filtered[r].calls) = Len(filtered[r].puts)
            /\ Len(filtered[r].calls) =
                  Min(Cardinality(CallCands(r)), Cardinality(PutCands(r)))

\* A filter step that had more candidates on one side than on the other and
\* selected something.
C1_Witness ==
    \E r \in RunIds :
        /\ FilterDone(r)
        /\ Cardinality(CallCands(r)) # Cardinality(PutCands(r))
        /\ Len(filtered[r].calls) >= 1

\* C3: the selected calls are candidates of the call band and the selected
\* puts candidates of the put band, each side holds the smaller candidate
\* count of distinct entries, and no candidate left out is strictly closer to
\* its target (0.20 or -0.20) than a selected one of its side.
C3_ClosestSelected ==
    \A r \in RunIds :
        FilterDone(r) =>
            LET calls == filtered[r].calls
                puts == filtered[r].puts
                n == Min(Cardinality(CallCands(r)), Cardinality(PutCands(r)))
            IN /\ Range(calls) \subseteq CallCands(r)
               /\ Range(puts) \subseteq PutCands(r)
               /\ Cardinality(Range(calls)) = n
               /\ Cardinality(Range(puts)) = n
               /\ \A c \in CallCands(r) \ Range(calls) : \A x \in Range(calls) :
                      Abs(x.delta - 20) <= Abs(c.delta - 20)
               /\ \A c \in PutCands(r) \ Range(puts) : \A x \in Range(puts) :
                      Abs(x.delta + 20) <= Abs(c.delta + 20)

\* A filter step that left out a call candidate lying below the target while
\* selecting one lying nearer to it.
C3_Witness ==
    \E r \in RunIds :
        /\ FilterDone(r)
        /\ \E c \in CallCands(r) \ Range(filtered[r].calls) :
              \E x \in Range(filtered[r].calls) :
                 c.delta < 20 /\ Abs(x.delta - 20) < Abs(c.delta - 20)

\* C2: a run that has set up anything of Phase 2 has a call and a put
\* selected; a run whose filter step found no candidate on some side has
\* ended with the no-candidates error and set up nothing of Phase 2.
C2_NoEmptyPhase2 ==
    \A r \in RunIds :
        /\ Phase2Begun(r) => Len(filtered[r].calls) >= 1 /\ Len(filtered[r].puts) >= 1
        /\ (FilterDone(r) /\ (CallCands(r) = {} \/ PutCands(r) = {})) =>
              /\ ~Phase2Begun(r)
              /\ pc[r] = "done"
              /\ LastEvent(r) = [type |-> "error",
                                 message |-> [text |-> "No options found in the 10-30 delta range"]]

\* A filter step with candidates on one side only, ended by the error.
C2_Witness ==
    \E r \in RunIds :
        /\ FilterDone(r)
        /\ (CallCands(r) = {}) # (PutCands(r) = {})
        /\ LastEvent(r).type = "error"

\* C4: every result a run emits has callOi > 0 and putOi > 0, these are the
\* sums of the recorded positive open interest over the selected calls and
\* over the selected puts, and skew * callOi = putOi.
C4_ResultSums ==
    \A r \in RunIds : \A d \in ResultsOf(r) :
        /\ d.callOi > 0
        /\ d.putOi > 0
        /\ d.callOi = CallOiTotal(r)
        /\ d.putOi = PutOiTotal(r)
        /\ d.skew.num * d.callOi = d.putOi * d.skew.den

\* A result whose two sums differ, with a selected identifier that added
\* nothing.
C4_Witness ==
    \E r \in RunIds : \E d \in ResultsOf(r) :
        /\ d.callOi # d.putOi
        /\ \E sym \in SelCallSyms(r) \cup SelPutSyms(r) : RecordedOi(r, sym) = 0

\* C5: a run whose Phase-2 timer fired with the call sum or the put sum at 0
\* ended with the timeout error carrying the numbers of calls and of puts
\* that had data, emitted no result, and wrote neither cache nor history.
C5_PartialTimeout ==
    \A r \in RunIds :
        (Phase2Fired(r) /\ (CallOiTotal(r) = 0 \/ PutOiTotal(r) = 0)) =>
            /\ LastEvent(r) = [type |-> "error",
                               message |-> [text |-> "Timeout: Got OI for",
                                            calls |-> CallsWithData(r),
                                            puts |-> PutsWithData(r)]]
            /\ ResultsOf(r) = {}
            /\ \A k \in CacheKeys : ~(skewCache[k].present /\ skewCache[k].by = r)
            /\ \A h \in history : h.run # r

\* The Phase-2 timer fired with data on the put side only.
C5_Witness ==
    \E r \in RunIds :
        /\ Phase2Fired(r)
        /\ CallOiTotal(r) = 0
        /\ PutOiTotal(r) > 0

\* C6 as stated: the counts of calls and of puts reported in a result are
\* equal.
C6_EqualCounts ==
    \A r \in RunIds : \A d \in ResultsOf(r) : d.callCount = d.putCount

\* C6 amended: a result comes from a selection of as many calls as puts, and
\* its two counts are the numbers of selected calls and of selected puts with
\* recorded open interest > 0, each at least 1 and at most the selection size.
C6_BalancedSelectionCounts ==
    \A r \in RunIds : \A d \in ResultsOf(r) :
        LET n == Len(filtered[r].calls)
        IN /\ Len(filtered[r].puts) = n
           /\ d.callCount = CallsWithData(r)
           /\ d.putCount = PutsWithData(r)
           /\ d.callCount >= 1 /\ d.callCount <= n
           /\ d.putCount >= 1 /\ d.putCount <= n

\* A result whose two counts differ.
C6_Witness ==
    \E r \in RunIds : \E d \in ResultsOf(r) : d.callCount # d.putCount

\* C7: a run emits at most one result-or-error event and nothing after it,
\* and a single-symbol response carries at most one result-or-error frame.
C7_OneTerminal ==
    /\ \A r \in RunIds :
          LET T == {i \in DOMAIN progress[r] : IsTerminal(progress[r][i])}
          IN Cardinality(T) <= 1 /\ \A i \in T : i = Len(progress[r])
    /\ \A q \in Reqs :
          reqKind[q] = "single" =>
              Cardinality({i \in DOMAIN sent[q] : sent[q][i].type \in {"result", "error"}}) <= 1

\* A run that went through chain, phase1 and phase2 and ended with its result.
C7_Witness ==
    \E r \in RunIds :
        /\ Len(progress[r]) = 4
        /\ LastEvent(r).type = "result"
        /\ reqKind[ReqOf(r)] = "single"

\* C8: under FairSpec (network calls return, scheduled timers fire) every
\* run that has started eventually emits a result or an error event.
C8_EventuallyTerminal ==
    \A r \in RunIds :
        (pc[r] # "idle") ~> (\E i \in DOMAIN progress[r] : IsTerminal(progress[r][i]))

\* C9: when the client of a request disconnects while a window of one of its
\* runs has its timer scheduled, the timer is still scheduled afterwards.
C9_DisconnectKeepsTimer ==
    [][\A r \in RunIds : \A ph \in {1, 2} :
          (/\ closeState[ReqOf(r)] = "armed"
           /\ closeState'[ReqOf(r)] = "fired"
           /\ <<r, ph>> \in timers)
          => <<r, ph>> \in timers']_vars

\* Run r holds the feed: identifiers subscribed, a listener registered or a
\* collection timer pending.
Holds(r) ==
    \E ph \in {1, 2} :
        \/ <<r, ph>> \in timers
        \/ <<r, ph>> \in feedListeners
        \/ \E id \in Ids : <<id, <<r, ph>>>> \in feedSubs

\* C10: at most one run holds the feed.
C10_OneHolder == Cardinality({r \in RunIds : Holds(r)}) <= 1

\* ------------------------------------------------ batch observations
\* The progress frames that end a symbol: cached, complete or error.
IsTermFrame(f) == f.type = "progress" /\ f.status \in {"cached", "complete", "error"}
TermFrames(q) == SelectSeq(sent[q], IsTermFrame)

\* The i-th symbol of batch q has been dispatched: its pipeline was started,
\* or it was settled without one.
Dispatched(q, i) == pc[<<q, i>>] # "idle" \/ Len(TermFrames(q)) >= i

\* The pipeline run of the i-th symbol ended with an error event.
RunFailed(q, i) ==
    /\ pc[<<q, i>>] = "done"
    /\ progress[<<q, i>>] # <<>>
    /\ LastEvent(<<q, i>>).type = "error"

IsBatch(q) == reqKind[q] = "batch"

\* C11: while the client of a batch is connected, a symbol whose pipeline
\* ended with an error (chain resolution, connect, no candidates, Phase-2
\* timeout) is in errors and the next symbol has been dispatched; without
\* credentials every symbol is settled, each one cached or in errors.
C11_FailureDoesNotEndBatch ==
    \A q \in BatchReqs :
        (IsBatch(q) /\ closeState[q] # "fired") =>
            /\ \A i \in 1..Len(reqSymbols[q]) :
                  RunFailed(q, i) =>
                      /\ reqSymbols[q][i] \in DOMAIN errors[q]
                      /\ i < Len(reqSymbols[q]) => Dispatched(q, i + 1)
            /\ (~credsOk) =>
                  /\ Len(TermFrames(q)) = Len(reqSymbols[q])
                  /\ \A i \in 1..Len(reqSymbols[q]) :
                        \/ TermFrames(q)[i].status = "cached"
                        \/ /\ TermFrames(q)[i].status = "error"
                           /\ reqSymbols[q][i] \in DOMAIN errors[q]

\* The first symbol of a connected batch ended with the Phase-2 timeout and
\* the second one's pipeline ended with an error of its own.
C11_Witness ==
    \E q \in BatchReqs :
        /\ IsBatch(q) /\ closeState[q] # "fired"
        /\ Len(reqSymbols[q]) >= 2
        /\ RunFailed(q, 1)
        /\ LastEvent(<<q, 1>>).message.text = "Timeout: Got OI for"
        /\ RunFailed(q, 2)

\* The complete events batch q has written.
CompleteFrames(q) == {sent[q][i] : i \in {j \in DOMAIN sent[q] : sent[q][j].type = "complete"}}
\* The positions of the requested symbols that ended with a result (fresh or
\* cached), and those that ended with an error.
Succeeded(q) ==
    {i \in 1..Len(TermFrames(q)) : TermFrames(q)[i].status \in {"cached", "complete"}}
FailedIdx(q) == {i \in 1..Len(TermFrames(q)) : TermFrames(q)[i].status = "error"}

\* C12: the summary of a completed batch has total = number of requested
\* symbols, successful = number of them that ended with a result, failed =
\* number of them that ended with an error, total = successful + failed, and
\* errors holds exactly the symbols that failed.
C12_SummaryCounts ==
    \A q \in BatchReqs : \A c \in CompleteFrames(q) :
        /\ c.total = Len(reqSymbols[q])
        /\ c.successful = Cardinality(Succeeded(q))
        /\ c.failed = Cardinality(FailedIdx(q))
        /\ c.total = c.successful + c.failed
        /\ DOMAIN errors[q] = {reqSymbols[q][i] : i \in FailedIdx(q)}

\* The number of symbol-ending frames among the first n frames of batch q.
TermBefore(q, n) == Len(SelectSeq(SubSeq(sent[q], 1, n), IsTermFrame))

\* C13: every progress frame of a batch belongs to the symbol that follows
\* the symbols already ended (so the cached, complete and error frames come
\* in request order), and that symbol and all earlier ones were dispatched.
C13_RequestOrder ==
    \A q \in BatchReqs : \A j \in DOMAIN sent[q] :
        sent[q][j].type = "progress" =>
            LET k == TermBefore(q, j - 1)
            IN /\ k + 1 <= Len(reqSymbols[q])
               /\ sent[q][j].symbol = reqSymbols[q][k + 1]
               /\ \A i \in 1..(k + 1) : Dispatched(q, i)

\* Two different symbols ended in turn, the second after a Phase 1 of its own.
C13_Witness ==
    \E q \in BatchReqs :
        /\ Len(TermFrames(q)) >= 2
        /\ reqSymbols[q][1] # reqSymbols[q][2]
        /\ \E j \in DOMAIN sent[q] :
              /\ sent[q][j].type = "progress"
              /\ sent[q][j].status = "phase1"
              /\ sent[q][j].symbol = reqSymbols[q][2]

\* The position in sent[q] of the i-th symbol-ending frame.
TermPos(q, i) == CHOOSE j \in DOMAIN sent[q] : IsTermFrame(sent[q][j]) /\ TermBefore(q, j) = i

\* Run r has done no pipeline work at all.
NoPipelineWork(r) ==
    /\ pc[r] = "idle"
    /\ chain[r] = <<>>
    /\ progress[r] = <<>>
    /\ \A ph \in {1, 2} :
          /\ <<r, ph>> \notin timers
          /\ <<r, ph>> \notin feedListeners
          /\ \A id \in Ids : <<id, <<r, ph>>>> \notin feedSubs
    /\ \A k \in CacheKeys : ~(skewCache[k].present /\ skewCache[k].by = r)
    /\ \A h \in history : h.run # r

\* A symbol of a batch that was served from the cache: one cached frame right
\* after the previous symbol's end, carrying the value put in results, and no
\* pipeline work.
CachedServed ==
    \A q \in BatchReqs : \A i \in 1..Len(TermFrames(q)) :
        TermFrames(q)[i].status = "cached" =>
            LET j == TermPos(q, i)
                symbol == reqSymbols[q][i]
            IN /\ sent[q][j - 1].type = "connected" \/ IsTermFrame(sent[q][j - 1])
               /\ symbol \in DOMAIN results[q]
               /\ results[q][symbol] = sent[q][j].data
               /\ NoPipelineWork(<<q, i>>)

\* A single-symbol request served from the cache.
CachedServedSingle ==
    \A q \in Reqs :
        (reqKind[q] = "single" /\ "cached" \in EventTypes(sent[q])) =>
            /\ sent[q] = <<[type |-> "connected"], [type |-> "cached"],
                           [type |-> "result"], [type |-> "close"]>>
            /\ NoPipelineWork(SingleRun(q))

\* A step that starts the pipeline for a symbol finds no unexpired entry
\* under its key.
PipelineOnlyOnMiss ==
    \A q \in Reqs : \A i \in RunIdx :
        (pc[<<q, i>>] = "idle" /\ pc'[<<q, i>>] # "idle") =>
            LET k == getCacheKey(reqSymbols'[q][i])
            IN ~(skewCache'[k].present /\ skewCache'[k].expiresAt >= now)

\* C14: a symbol whose key has an unexpired cache entry when it is dispatched
\* gets one cached event carrying the cached value, is recorded in results,
\* and no pipeline work is done for it: no chain fetch, nothing on the feed,
\* no timer, no cache write, no history write.
C14_CacheHitShortCircuit ==
    /\ [](CachedServed /\ CachedServedSingle)
    /\ [][PipelineOnlyOnMiss]_vars

\* A batch whose first symbol was computed and whose second was then served
\* from the cache.
C14_Witness ==
    \E q \in BatchReqs :
        /\ Len(TermFrames(q)) >= 2
        /\ TermFrames(q)[1].status = "complete"
        /\ TermFrames(q)[2].status = "cached"

\* A step taken after the client of batch q has disconnected writes nothing
\* to its response, results or errors, starts no pipeline for it, and writes
\* neither a cache entry nor a snapshot for one of its runs.
QuietAfterDisconnect(q) ==
    (IsBatch(q) /\ closeState[q] = "fired") =>
        /\ sent'[q] = sent[q]
        /\ results'[q] = results[q]
        /\ errors'[q] = errors[q]
        /\ \A i \in RunIdx : pc[<<q, i>>] = "idle" => pc'[<<q, i>>] = "idle"
        /\ \A k \in CacheKeys :
              skewCache'[k] # skewCache[k] =>
                  ~(skewCache'[k].present /\ skewCache'[k].by \in {q} \X RunIdx)
        /\ \A h \in history' \ history : ReqOf(h.run) # q

\* C15: after the client of a batch has disconnected, the batch emits no
\* progress or complete event, dispatches no further symbol, and a result of
\* a pipeline still in flight is not written to the cache, the history or
\* results.
C15_NothingAfterDisconnect == [][\A q \in BatchReqs : QuietAfterDisconnect(q)]_vars

\* The client of a batch is gone and a run of the batch has since produced a
\* result that is not in results.
C15_Witness ==
    \E q \in BatchReqs : \E i \in RunIdx :
        /\ IsBatch(q) /\ closeState[q] = "fired"
        /\ ResultsOf(<<q, i>>) # {}
        /\ reqSymbols[q][i] \notin DOMAIN results[q]

\* C16: once the disconnect handler of a batch has run, no run of the batch
\* has identifiers subscribed, a listener registered or a collection timer
\* pending, then or later.
C16_TeardownOnAbort ==
    \A q \in BatchReqs :
        (IsBatch(q) /\ closeState[q] = "fired") => \A i \in RunIdx : ~Holds(<<q, i>>)

\* The data events written to the response of q (the closing "event: close"
\* frame is the end-of-stream marker).
DataEvents(q) == SelectSeq(sent[q], LAMBDA f : f.type # "close")

\* connected, then progress events, then at most one complete, which is last;
\* the stream is closed only after complete.
BatchStreamShape(q) ==
    LET ev == DataEvents(q)
    IN /\ Len(ev) >= 1
       /\ ev[1].type = "connected"
       /\ \A j \in 2..Len(ev) :
             /\ ev[j].type \in {"progress", "complete"}
             /\ ev[j].type = "complete" => j = Len(ev)
       /\ \/ sent[q] = ev
          \/ /\ sent[q] = ev \o <<[type |-> "close"]>>
             /\ ev[Len(ev)].type = "complete"

\* C17: under FairBatchSpec (one batch, nothing interfering, fetches return
\* and timers fire), while the client is connected the events written are
\* connected, then progress events, then at most one complete event, which is
\* last; and the batch eventually writes complete unless its client
\* disconnects.
C17_BatchStream ==
    /\ [](\A q \in BatchReqs : (IsBatch(q) /\ closeState[q] # "fired") => BatchStreamShape(q))
    /\ \A q \in BatchReqs :
          IsBatch(q) ~> (closeState[q] = "fired" \/ CompleteFrames(q) # {})

\* A connected batch that wrote complete after a success and a failure.
C17_Witness ==
    \E q \in BatchReqs : \E c \in CompleteFrames(q) :
        /\ closeState[q] # "fired"
        /\ c.successful >= 1
        /\ c.failed >= 1
        /\ sent[q][Len(sent[q])].type = "close"

\* ------------------------------------------- the cache on its own
\* The values stored: two different results.
LaterResult ==
    SkewResult([x \in {"C1", "P1"} |->
                   IF x = "C1" THEN [delta |-> 18, oi |-> 40] ELSE [delta |-> -22, oi |-> 10]])
CacheValues == {EarlierResult, LaterResult}
\* The ttlMs arguments: left out, negative, zero, positive.
TtlArgs == {NoTtl} \cup {Ttl(n) : n \in -1..MaxTtl}

\* Server state with no request running.
InitCache ==
    /\ credsOk = TRUE
    /\ SetGlobalsInit(InitGlobals)
    /\ pc = [r \in RunIds |-> "idle"]
    /\ chain = [r \in RunIds |-> <<>>]
    /\ deltas = [r \in RunIds |-> <<>>]
    /\ filtered = [r \in RunIds |-> NoSelection]
    /\ dataStore = [r \in RunIds |-> EmptyMap]
    /\ progress = [r \in RunIds |-> <<>>]
    /\ heldAtEnd = [r \in RunIds |-> NotEnded]
    /\ reqKind = [q \in Reqs |-> "none"]
    /\ reqState = [q \in Reqs |-> "new"]
    /\ reqSymbols = [q \in Reqs |-> <<>>]
    /\ closeState = [q \in Reqs |-> "none"]
    /\ sent = [q \in Reqs |-> <<>>]
    /\ results = [q \in Reqs |-> EmptyMap]
    /\ errors = [q \in Reqs |-> EmptyMap]
    /\ skewCache \in [CacheKeys -> EarlierEntries]
    /\ history = {}
    /\ msgCount = 0
    /\ now = 0
    /\ lastGet = NoGet
    /\ lastSet = NoSet
    /\ lastOp = NoOp
    /\ dbDone = {}
    /\ fetched = NoFetch
    /\ lastCleanup = NoThrow
    /\ heard = <<>>

\* skewCache.set(key, data, ttlMs)
CacheSet(key, data, ttl) ==
    /\ skewCache' = mcSet(skewCache, key, data, now, ttl, <<>>)
    /\ lastSet' = [made |-> TRUE, key |-> key, data |-> data, at |-> now, ttl |-> ttl,
                   replaced |-> skewCache[key].present /\ skewCache[key].data # data]
    /\ lastGet' = NoGet
    /\ lastOp' = NoOp
    /\ UNCHANGED <<now, dbDone, fetched, lastCleanup, heard,
                   credsOk, globalVars, runVars, reqVars, history, msgCount>>

\* GET /skew/:symbol: skewCache.get(getCacheKey(symbol))
CacheGet(symbol) ==
    LET key == getCacheKey(symbol)
    IN \E g \in {mcGet(skewCache, key, now)} :
          /\ skewCache' = g.cache
          /\ lastGet' = [made |-> TRUE, key |-> key, at |-> now, entry |-> skewCache[key],
                         value |-> g.value, after |-> g.cache[key]]
          /\ lastOp' = NoOp
          /\ UNCHANGED <<now, lastSet, dbDone, fetched, lastCleanup, heard,
                   credsOk, globalVars, runVars, reqVars, history, msgCount>>

\* DELETE /cache/:symbol
CacheDelete(symbol) ==
    LET key == getCacheKey(symbol)
    IN /\ skewCache' = mcDelete(skewCache, key)
       /\ lastSet' = IF lastSet.made /\ lastSet.key = key THEN NoSet ELSE lastSet
       /\ lastOp' = [op |-> "delete", key |-> key, held |-> skewCache[key].present,
                     others |-> \E k \in CacheKeys \ {key} : skewCache[k].present]
       /\ UNCHANGED <<now, lastGet, dbDone, fetched, lastCleanup, heard,
                   credsOk, globalVars, runVars, reqVars, history, msgCount>>

\* DELETE /cache
CacheClear ==
    /\ skewCache' = mcClear(skewCache)
    /\ lastSet' = NoSet
    /\ lastOp' = [op |-> "clear", held |-> \E k \in CacheKeys : skewCache[k].present]
    /\ UNCHANGED <<now, lastGet, dbDone, fetched, lastCleanup, heard,
                   credsOk, globalVars, runVars, reqVars, history, msgCount>>

\* The setInterval callback of the constructor: cleanup().
CacheSweep ==
    /\ skewCache' = mcCleanup(skewCache, now)
    /\ lastOp' = [op |-> "sweep",
                  removed |-> \E k \in CacheKeys :
                                 skewCache[k].present /\ now > skewCache[k].expiresAt,
                  kept |-> \E k \in CacheKeys :
                              skewCache[k].present /\ ~(now > skewCache[k].expiresAt)]
    /\ UNCHANGED <<now, lastGet, lastSet, dbDone, fetched, lastCleanup, heard,
                   credsOk, globalVars, runVars, reqVars, history, msgCount>>

\* Date.now() moves on.
Tick ==
    /\ now < MaxClock
    /\ now' = now + 1
    /\ lastOp' = NoOp
    /\ UNCHANGED <<lastGet, lastSet, dbDone, fetched, lastCleanup, heard,
                   credsOk, globalVars, runVars, reqVars, skewCache, history,
                   msgCount>>

NextCache ==
    \/ \E key \in CacheKeys, data \in CacheValues, ttl \in TtlArgs : CacheSet(key, data, ttl)
    \/ \E symbol \in Symbols : CacheGet(symbol)
    \/ \E symbol \in Symbols : CacheDelete(symbol)
    \/ CacheClear
    \/ CacheSweep
    \/ Tick

SpecCache == InitCache /\ [][NextCache]_vars

\* ------------------------------------------- properties of the cache
\* C18: whatever sets, gets, deletes, clears, sweeps and clock advances came
\* before, a get never returns the value of an entry whose expiresAt is
\* earlier than the time of the get; what it returns is the stored value.
C18_NeverExpiredReturned ==
    (lastGet.made /\ lastGet.value.found) =>
        /\ lastGet.entry.present
        /\ ~(lastGet.entry.expiresAt < lastGet.at)
        /\ lastGet.value.data = lastGet.entry.data

\* A get of an entry that had expired returned nothing.
C18_Witness ==
    /\ lastGet.made
    /\ lastGet.entry.present
    /\ lastGet.entry.expiresAt < lastGet.at
    /\ ~lastGet.value.found

\* C19: get returns the stored value exactly when the key is present and
\* the time of the get is strictly before expiresAt; in every other case,
\* the time being equal to expiresAt included, it returns nothing and the
\* entry is gone afterwards.
C19_StrictExpiry ==
    lastGet.made =>
        IF lastGet.entry.present /\ lastGet.at < lastGet.entry.expiresAt
        THEN lastGet.value = Found(lastGet.entry.data)
        ELSE lastGet.value = Absent /\ ~lastGet.after.present

\* The expiry the last set should have stored: its time plus its ttl, one
\* hour when no ttl was given.
ExpectedExpiry == lastSet.at + (IF lastSet.ttl.given THEN lastSet.ttl.ms ELSE DefaultTtl)
\* The last get asked for the key of the set in force (it came after it).
GetAfterSet == lastSet.made /\ lastGet.made /\ lastGet.key = lastSet.key

\* C20: after set(key, v, ttl) with a positive (or default) ttl, a get at
\* the same clock reading returns v; the set replaces whatever the key held
\* by v with expiry now + ttl, which stays until it is evicted after that
\* time; a get after the clock passed now + ttl returns nothing.
C20_RoundTrip ==
    /\ (GetAfterSet /\ lastGet.at = lastSet.at /\ ExpectedExpiry > lastSet.at) =>
           lastGet.value = Found(lastSet.data)
    /\ lastSet.made =>
           \/ /\ skewCache[lastSet.key].present
              /\ skewCache[lastSet.key].data = lastSet.data
              /\ skewCache[lastSet.key].expiresAt = ExpectedExpiry
           \/ /\ ~skewCache[lastSet.key].present
              /\ now > ExpectedExpiry
    /\ (GetAfterSet /\ lastGet.at > ExpectedExpiry) => lastGet.value = Absent

\* A set with a ttl replaced an entry holding another value, and a get at
\* the same clock reading returned the new value.
C20_Witness ==
    /\ GetAfterSet
    /\ lastSet.ttl.given
    /\ lastSet.ttl.ms > 0
    /\ lastSet.replaced
    /\ lastGet.at = lastSet.at
    /\ lastGet.value = Found(lastSet.data)

\* What a get of key would return now.
GetNow(key) == mcGet(skewCache, key, now).value

\* C21: right after delete(key) a get of the key returns nothing, and the
\* delete step leaves the entry of every other key as it was; right after
\* clear() a get of any key returns nothing; delete and clear can always be
\* called, on an absent key and on an empty cache too, where they change
\* nothing.
C21_ExplicitEviction ==
    /\ [](/\ lastOp.op = "delete" => GetNow(lastOp.key) = Absent
          /\ lastOp.op = "clear" => \A k \in CacheKeys : GetNow(k) = Absent
          /\ \A symbol \in Symbols : ENABLED CacheDelete(symbol)
          /\ ENABLED CacheClear)
    /\ [][/\ \A symbol \in Symbols : CacheDelete(symbol) =>
                /\ \A k \in CacheKeys \ {getCacheKey(symbol)} : skewCache'[k] = skewCache[k]
                /\ ~skewCache[getCacheKey(symbol)].present => skewCache' = skewCache
          /\ CacheClear =>
                ((\A k \in CacheKeys : ~skewCache[k].present) => skewCache' = skewCache)]_vars

\* A delete removed an entry while another key held one, which is still there.
C21_Witness ==
    /\ lastOp.op = "delete"
    /\ lastOp.held
    /\ lastOp.others
    /\ \E k \in CacheKeys \ {lastOp.key} : skewCache[k].present

\* C22: a sweep removes every entry whose expiresAt the clock has passed and
\* leaves every other entry, with its value and expiresAt, as it was; right
\* after a sweep no entry of the cache is expired.
C22_SweepExact ==
    /\ [](lastOp.op = "sweep" =>
             \A k \in CacheKeys : skewCache[k].present => ~(now > skewCache[k].expiresAt))
    /\ [][CacheSweep =>
             \A k \in CacheKeys :
                 skewCache'[k] = IF skewCache[k].present /\ now > skewCache[k].expiresAt
                                 THEN NoEntry ELSE skewCache[k]]_vars

\* A sweep removed an expired entry and kept an unexpired one.
C22_Witness ==
    /\ lastOp.op = "sweep"
    /\ lastOp.removed
    /\ lastOp.kept
    /\ \E k \in CacheKeys : skewCache[k].present

\* ------------------------------------ properties of cache and pipeline
\* Run r hands over its terminal event of the given type in this step.
EndsIn(r, type) ==
    /\ progress'[r] # progress[r]
    /\ progress'[r][Len(progress'[r])].type = type
\* The symbol run r computes.
SymbolOf(r) == reqSymbols[ReqOf(r)][r[2]]
\* Every entry written during the behaviour holds a result of the run that
\* wrote it, under the normalized key of that run's symbol, and a lookup
\* within its lifetime returns that value.
EntriesFromResults ==
    \A k \in CacheKeys :
        (skewCache[k].present /\ skewCache[k].by # <<>>) =>
            /\ skewCache[k].data \in ResultsOf(skewCache[k].by)
            /\ getCacheKey(SymbolOf(skewCache[k].by)) = k
            /\ now <= skewCache[k].expiresAt => GetNow(k) = Found(skewCache[k].data)
\* A step in which run r ends in error creates or changes no entry.
ErrorWritesNothing(r) ==
    EndsIn(r, "error") =>
        \A k \in CacheKeys : skewCache'[k].present => skewCache'[k] = skewCache[k]
\* A step in which run r ends in result stores the result under the
\* normalized key of its symbol, for the default lifetime.
ResultStored(r) ==
    LET k == getCacheKey(SymbolOf(r))
        e == progress'[r][Len(progress'[r])]
    IN /\ skewCache'[k].present
       /\ skewCache'[k].data = e.data
       /\ skewCache'[k].expiresAt = now + DefaultTtl

\* C23 as stated: entries come only from successful runs, a run ending in
\* error writes nothing, and every run ending in result stores its value
\* under the normalized key, where a lookup within the lifetime finds it.
C23_CacheOnSuccess ==
    /\ []EntriesFromResults
    /\ [][\A r \in RunIds :
             /\ ErrorWritesNothing(r)
             /\ EndsIn(r, "result") => ResultStored(r)]_vars

\* C23, amended: the same, except that the result of a run of a batch whose
\* client has disconnected is dropped and not stored.
C23_CacheOnDeliveredSuccess ==
    /\ []EntriesFromResults
    /\ [][\A r \in RunIds :
             /\ ErrorWritesNothing(r)
             /\ (EndsIn(r, "result")
                 /\ ~(reqKind[ReqOf(r)] = "batch" /\ closeState[ReqOf(r)] = "fired")) =>
                    ResultStored(r)
             /\ (EndsIn(r, "result")
                 /\ reqKind[ReqOf(r)] = "batch" /\ closeState[ReqOf(r)] = "fired") =>
                    skewCache' = skewCache]_vars

\* The result of a run for /ES is in the cache under ES.
C23_Witness ==
    \E r \in RunIds :
        /\ pc[r] = "done"
        /\ SymbolOf(r) = SlashES
        /\ skewCache[ES].present
        /\ skewCache[ES].by = r
        /\ skewCache[ES].data \in ResultsOf(r)

\* ------------------------------------------------ the history write
\* A catch block that throws again.
snapshotCatch_rethrow == "thrown"
\* catch (error) { console.error(...) } of saveSkewSnapshot: logged, not thrown
snapshotCatch == "logged"

\* The calls of saveSkewSnapshot whose write is still under way.
DbPending == {h \in history : \A d \in dbDone : d.snap # h}

\* prisma.skewSnapshot.create settles for the call snap: it resolves (ok) or
\* rejects.  The promise of saveSkewSnapshot is awaited by nobody, so an error
\* that left it would end the process and with it every open response.
DbSettle(snap, ok) ==
    /\ snap \in DbPending
    /\ \E outcome \in {IF ok THEN "saved" ELSE snapshotCatch} :
          /\ dbDone' = dbDone \cup {[snap |-> snap, outcome |-> outcome]}
          /\ reqState' = IF outcome = "thrown"
                         THEN [q \in Reqs |-> IF reqState[q] = "open" THEN "ended" ELSE reqState[q]]
                         ELSE reqState
    /\ UNCHANGED <<now, lastGet, lastSet, lastOp, fetched, lastCleanup, heard, credsOk, globalVars,
                   runVars, reqKind,
                   reqSymbols, closeState, sent, results, errors, skewCache, history, msgCount>>

NextDb ==
    \/ Next
    \/ \E snap \in history, ok \in BOOLEAN : DbSettle(snap, ok)

\* The server with the database writes settling.
SpecDb == Init /\ [][NextDb]_vars

\* The writes that failed.
DbFailed == {d \in dbDone : d.outcome # "saved"}
\* The computation behind the snapshot h came out as a success.
OutcomeKept(h) ==
    LET r == h.run
        q == ReqOf(r)
        symbol == SymbolOf(r)
    IN /\ h.data \in ResultsOf(r)
       /\ skewCache[getCacheKey(symbol)].present
       /\ IF reqKind[q] = "single"
          THEN "result" \in EventTypes(sent[q]) /\ "error" \notin EventTypes(sent[q])
          ELSE /\ \E i \in DOMAIN sent[q] :
                     sent[q][i] = ProgressData(symbol, "complete", h.data)
               /\ symbol \in DOMAIN results[q]
               /\ \A c \in CompleteFrames(q) : c.successful >= 1

\* C24: a history write that fails is logged and nothing else: the result
\* event was emitted and stays, the cache entry was written, the batch has
\* the symbol among its results and counts it as successful; the step in
\* which the write fails changes nothing of that and calls saveSkewSnapshot
\* for nothing (no retry).
C24_HistoryFailureSuppressed ==
    /\ [](\A d \in DbFailed : d.outcome = "logged" /\ OutcomeKept(d.snap))
    /\ [][dbDone' # dbDone =>
             /\ dbDone \subseteq dbDone'
             /\ UNCHANGED <<history, skewCache, sent, results, errors, progress, reqState, pc,
                            globalVars>>]_vars

\* The write for a symbol of a batch failed after the batch had written
\* complete with the symbol counted.
C24_Witness ==
    \E d \in DbFailed :
        /\ reqKind[ReqOf(d.snap.run)] = "batch"
        /\ \E c \in CompleteFrames(ReqOf(d.snap.run)) : c.successful >= 1
        /\ OutcomeKept(d.snap)

\* ------------------------------------------------- fetchOptionChain
\* symbol.startsWith('/')
hasSlash(symbol) == symbol # <<>> /\ Head(symbol) = "/"
\* symbol.replace('/', ''): the first slash goes, wherever it is.
RECURSIVE normalizedSymbol(_)
normalizedSymbol(symbol) ==
    IF symbol = <<>> THEN <<>>
    ELSE IF Head(symbol) = "/" THEN Tail(symbol)
    ELSE <<Head(symbol)>> \o normalizedSymbol(Tail(symbol))

\* [A-Z0-9] and [FGHJKMNQUVXZ]
IsUpperAlnum(c) == c \in Range(UpperCase) \cup DigitChars
MonthCodes == {"F", "G", "H", "J", "K", "M", "N", "Q", "U", "V", "X", "Z"}
\* n ends in a month code and k digits.
EndsInContract(n, k) ==
    /\ Len(n) >= k + 1
    /\ \A i \in (Len(n) - k + 1)..Len(n) : n[i] \in DigitChars
    /\ n[Len(n) - k] \in MonthCodes
\* /^[A-Z0-9]{2,}[FGHJKMNQUVXZ]\d{1,2}$/.test(normalizedSymbol)
isFuturesContract(n) ==
    \E k \in {1, 2} :
        /\ EndsInContract(n, k)
        /\ Len(n) - k - 1 >= 2
        /\ \A i \in 1..(Len(n) - k - 1) : IsUpperAlnum(n[i])
\* hasSlash && /^[A-Z0-9]{2,}$/.test(normalizedSymbol)
isFuturesRoot(symbol) ==
    /\ hasSlash(symbol)
    /\ Len(normalizedSymbol(symbol)) >= 2
    /\ \A i \in DOMAIN normalizedSymbol(symbol) : IsUpperAlnum(normalizedSymbol(symbol)[i])
isFutures(symbol) == isFuturesContract(normalizedSymbol(symbol)) \/ isFuturesRoot(symbol)

\* normalizedSymbol.replace(/[FGHJKMNQUVXZ]\d{1,2}$/, '') for a contract, the
\* normalized symbol otherwise.
rootSymbol(symbol) ==
    LET n == normalizedSymbol(symbol)
    IN IF ~isFuturesContract(n) THEN n
       ELSE IF EndsInContract(n, 2) THEN SubSeq(n, 1, Len(n) - 3)
       ELSE SubSeq(n, 1, Len(n) - 2)

\* The request fetchOptionChain makes for the symbol: the futures chain of
\* the root, or the equity chain of the normalized symbol.
chainLookup(symbol) ==
    IF isFutures(symbol)
    THEN [kind |-> "futures", name |-> rootSymbol(symbol)]
    ELSE [kind |-> "equity", name |-> normalizedSymbol(symbol)]

\* An expiration of the venue's list: its expiration-type and its
\* expiration-date, given as the calendar days from today's date to it.
ExpTypes == {"Regular", "End-Of-Month", "Weekly"}
ExpDays == {-1, 29, 31, 33}
Expirations == [type : ExpTypes, days : ExpDays]
\* The venue's answer: no chain at all, or a chain with its expirations.
NoChains == [chains |-> FALSE, items |-> <<>>]
Responses ==
    {NoChains} \cup
    UNION {{[chains |-> TRUE, items |-> l] : l \in [1..n -> Expirations]} : n \in 0..MaxExps}

\* A filter that lets every expiration type through.
isValidExpType_any(exp) == TRUE
\* validExpTypes.includes(expType)
isValidExpType(exp) == exp.type \in {"End-Of-Month", "Regular"}
\* items.filter(...)
filteredExpItems(items) == SelectSeq(items, isValidExpType)

\* differenceInDays(parseISO(expDateStr), new Date()): whole days between
\* the local midnight of the expiration date and the present moment,
\* truncated toward zero; midnight says that the present moment is itself a
\* local midnight.
differenceInDays(days, midnight) ==
    IF midnight THEN days ELSE IF days > 0 THEN days - 1 ELSE days

\* A test that lets past expirations through.
dteTooSmall_never(dte) == FALSE
\* if (dte < 0) continue
dteTooSmall(dte) == dte < 0

NoBest == [found |-> FALSE]
RECURSIVE bestExpFrom(_, _, _, _)
\* The loop over filteredExpItems from position i on, with bestExp/minDiff
\* as they stand.
bestExpFrom(exps, i, best, midnight) ==
    IF i > Len(exps) THEN best
    ELSE LET dte == differenceInDays(exps[i].days, midnight)
             diff == Abs(dte - TargetDte)
         IN IF dteTooSmall(dte) THEN bestExpFrom(exps, i + 1, best, midnight)
            ELSE IF ~best.found \/ diff < best.minDiff
                 THEN bestExpFrom(exps, i + 1,
                         [found |-> TRUE, exp |-> exps[i], dte |-> dte, minDiff |-> diff],
                         midnight)
                 ELSE bestExpFrom(exps, i + 1, best, midnight)
bestExp(exps, midnight) == bestExpFrom(exps, 1, NoBest, midnight)

ChainError(text) == [ok |-> FALSE, error |-> text]
\* fetchOptionChain(symbol) on the venue's answer resp; every expiration
\* lists the strikes of ChainFull.
fetchOptionChain(hasClient, symbol, resp, midnight) ==
    IF ~hasClient THEN ChainError("Client not initialized")
    ELSE IF isFutures(symbol) /\ ~resp.chains
    THEN ChainError("No option chains found in response.")
    ELSE IF isFutures(symbol) /\ Len(resp.items) = 0
    THEN ChainError("No expirations found in option chain.")
    ELSE IF Len(resp.items) = 0
    THEN ChainError("Unexpected chain structure: could not find expirations list.")
    ELSE IF Len(filteredExpItems(resp.items)) = 0
    THEN ChainError("No End-Of-Month or Regular expirations found.")
    ELSE LET best == bestExp(filteredExpItems(resp.items), midnight)
         IN IF ~best.found THEN ChainError("No suitable expiration found.")
            ELSE [ok |-> TRUE, symbols |-> ChainFull, exp |-> best.exp, dte |-> best.dte]

\* fetchOptionChain returns or throws for run r, the venue having answered
\* resp; streamSkewCalculation goes on to the connect, or ends in its catch.
FetchChain(r, resp, midnight) ==
    /\ pc[r] = "fetch"
    /\ \E res \in {fetchOptionChain(client, SymbolOf(r), resp, midnight)} :
          /\ fetched' = [made |-> TRUE, run |-> r, symbol |-> SymbolOf(r), resp |-> resp,
                         midnight |-> midnight, res |-> res]
          /\ IF ~res.ok
             THEN Finish(r, Globals, <<ErrorEvent(res.error)>>) /\ UNCHANGED chain
             ELSE IF noSymbols(res.symbols)
                  THEN /\ Finish(r, Globals,
                                 <<ChainEvent, ErrorEvent("No symbols found in option chain")>>)
                       /\ UNCHANGED chain
                  ELSE /\ chain' = [chain EXCEPT ![r] = res.symbols]
                       /\ Step(r, Globals, <<ChainEvent>>, "connect")
    /\ UNCHANGED <<now, lastGet, lastSet, lastOp, dbDone, lastCleanup, heard, credsOk, deltas, filtered,
                   dataStore,
                   reqKind, reqSymbols, closeState, msgCount>>

\* One single-symbol request, up to the start of Phase 1.
NextChain ==
    \/ \E symbol \in Symbols : RequestSingle("r1", symbol)
    \/ /\ pc[SingleRun("r1")] = "fetch"
       /\ \E resp \in Responses, midnight \in BOOLEAN :
             FetchChain(SingleRun("r1"), resp, midnight)
    \/ \E ok \in BOOLEAN : ConnectReturn(SingleRun("r1"), ok)

SpecChain == Init /\ [][NextChain]_vars

\* ------------------------------------- properties of fetchOptionChain
\* The expirations the last fetch was given, and what it made of them.
FetchedItems == fetched.resp.items
FetchedDte(i) == differenceInDays(FetchedItems[i].days, fetched.midnight)
\* Allowed category and not in the past.
Eligible(i) ==
    /\ FetchedItems[i].type \in {"End-Of-Month", "Regular"}
    /\ FetchedDte(i) >= 0
EligibleSet == {i \in DOMAIN FetchedItems : Eligible(i)}
DteDist(i) == Abs(FetchedDte(i) - 30)
\* The first position of the list that holds the selected expiration.
SelectedPos ==
    CHOOSE i \in DOMAIN FetchedItems :
        /\ FetchedItems[i] = fetched.res.exp
        /\ \A j \in 1..(i - 1) : FetchedItems[j] # fetched.res.exp

\* C25: when fetchOptionChain selects an expiration, it is one of the list,
\* of an allowed category and with dte >= 0; no eligible expiration is
\* nearer to 30, none before it in the list is as near; and whenever an
\* eligible expiration exists one is selected.
C25_ExpirationSelection ==
    fetched.made =>
        /\ fetched.res.ok =>
              /\ \E i \in DOMAIN FetchedItems : FetchedItems[i] = fetched.res.exp
              /\ Eligible(SelectedPos)
              /\ fetched.res.dte = FetchedDte(SelectedPos)
              /\ \A j \in EligibleSet : DteDist(j) >= DteDist(SelectedPos)
              /\ \A j \in EligibleSet : j < SelectedPos => DteDist(j) > DteDist(SelectedPos)
        /\ (EligibleSet # {} /\ client) => fetched.res.ok

\* An expiration was selected although one of a disallowed category,
\* earlier in the list, is at distance 0, and a later eligible one ties
\* with the selected one.
C25_Witness ==
    /\ fetched.made
    /\ fetched.res.ok
    /\ \E j \in DOMAIN FetchedItems :
          /\ FetchedItems[j].type = "Weekly"
          /\ DteDist(j) = 0
          /\ j < SelectedPos
    /\ \E j \in EligibleSet :
          /\ j > SelectedPos
          /\ DteDist(j) = DteDist(SelectedPos)
          /\ FetchedItems[j] # fetched.res.exp

\* The messages of the two kinds of failure.
ChainNotFoundTexts ==
    {"No option chains found in response.", "No expirations found in option chain.",
     "Unexpected chain structure: could not find expirations list."}
NoExpirationTexts ==
    {"No End-Of-Month or Regular expirations found.", "No suitable expiration found."}
\* The run of the last fetch ended with exactly the error of the fetch, and
\* the feed was never touched.
EndedWithoutFeed ==
    LET r == fetched.run
    IN /\ pc[r] = "done"
       /\ progress[r] = <<ErrorEvent(fetched.res.error)>>
       /\ sent[ReqOf(r)] = <<Frame("connected"), Frame("error"), Frame("close")>>
       /\ ~feedConnected
       /\ feedSubs = {}
       /\ feedListeners = {}
       /\ timers = {}

\* C26: with no chain data or no expirations list fetchOptionChain fails
\* with a chain-not-found error; with a list that holds no expiration of an
\* allowed category with dte >= 0 it fails with a no-expiration error; in
\* both cases the run ends with that error event and the feed is never
\* connected to, subscribed to or listened on.
C26_ChainErrors ==
    fetched.made =>
        /\ (~fetched.resp.chains \/ Len(FetchedItems) = 0) =>
              (~fetched.res.ok /\ fetched.res.error \in ChainNotFoundTexts)
        /\ (Len(FetchedItems) > 0 /\ EligibleSet = {}) =>
              (~fetched.res.ok /\ fetched.res.error \in NoExpirationTexts)
        /\ ~fetched.res.ok => EndedWithoutFeed

\* The venue listed only allowed expirations of the past, and the run ended
\* with the no-expiration error.
C26_Witness ==
    /\ fetched.made
    /\ Len(FetchedItems) > 0
    /\ \A i \in DOMAIN FetchedItems :
          FetchedItems[i].type = "Regular" /\ FetchedDte(i) < 0
    /\ fetched.res = ChainError("No suitable expiration found.")
    /\ EndedWithoutFeed

\* ---------------------------------------------- properties of teardown
\* C27: when a run hands its result or error event to the caller, it has no
\* subscription, no listener and no timer left on the feed.
C27_CleanupBeforeSignal ==
    \A r \in RunIds :
        heldAtEnd[r].ended =>
            /\ ~heldAtEnd[r].subs
            /\ ~heldAtEnd[r].listener
            /\ ~heldAtEnd[r].timer

\* Run r has a subscription or a listener on the feed.
OnFeed(r) ==
    \/ \E id \in Ids, ph \in {1, 2} : <<id, <<r, ph>>>> \in feedSubs
    \/ \E ph \in {1, 2} : <<r, ph>> \in feedListeners
\* The pipeline of the i-th symbol of batch q has been started.
Started(q, i) == pc[<<q, i>>] # "idle"

\* C28: in a batch, once the pipeline of a symbol has been started, the
\* pipeline of the symbol before it has no subscription and no listener on
\* the feed.
C28_TeardownBeforeNext ==
    \A q \in BatchReqs : \A i \in RunIdx :
        (IsBatch(q) /\ i + 1 \in RunIdx /\ Started(q, i + 1)) => ~OnFeed(<<q, i>>)

\* ------------------------------------------------ teardown that throws
\* POST /cleanup when removeEventListener or unsubscribe of the feed throws.
CleanupThrows(removeThrows, unsubThrows) ==
    /\ client
    /\ removeThrows \/ unsubThrows
    /\ removeThrows => currentEventHandler # NoHandler
    /\ unsubThrows => Len(currentSubscribedSymbols) > 0
    /\ SetGlobals(cleanupStreamerWith(Globals, removeThrows, unsubThrows))
    /\ lastCleanup' = [called |-> TRUE, remove |-> removeThrows, unsub |-> unsubThrows,
                       handler |-> currentEventHandler]
    /\ UNCHANGED <<now, lastGet, lastSet, lastOp, dbDone, fetched, heard, credsOk, runVars, reqVars,
                   skewCache, history, msgCount>>

NextTeardown ==
    \/ \E q \in Reqs : \E symbol \in SingleSymbols(q) : RequestSingle(q, symbol)
    \/ \E r \in RunIds, o \in FetchOutcomes : FetchReturn(r, o)
    \/ \E r \in RunIds, ok \in BOOLEAN : ConnectReturn(r, ok)
    \/ \E r \in RunIds : Phase1Timer(r)
    \/ \E r \in RunIds : Phase2Timer(r)
    \/ \E json \in Messages : FeedMessage(json)
    \/ \E q \in Reqs : CloseSingle(q)
    \/ CleanupEndpoint
    \/ \E removeThrows, unsubThrows \in BOOLEAN : CleanupThrows(removeThrows, unsubThrows)

\* Two single-symbol requests and a feed whose calls may throw during
\* cleanup.
SpecTeardown == Init /\ [][NextTeardown]_vars

\* Nothing is tracked.
TrackedClear ==
    /\ currentTimeout = NoTimer
    /\ currentEventHandler = NoHandler
    /\ currentSubscribedSymbols = <<>>
\* A step whose last write to the tracked state is a call of
\* cleanupStreamer: a disconnect handler, POST /cleanup, the finally block of
\* a run, the start of a run.
CleanupCalled ==
    \/ \E q \in Reqs : closeState[q] # "fired" /\ closeState'[q] = "fired"
    \/ CleanupEndpoint
    \/ lastCleanup' # lastCleanup
    \/ \E r \in RunIds : pc[r] # "done" /\ pc'[r] = "done"
    \/ \E r \in RunIds : pc[r] = "idle" /\ pc'[r] # "idle"

\* C29: after a call of cleanupStreamer nothing is tracked, also when the
\* feed threw on removeEventListener or unsubscribe, and one more call,
\* throwing or not, would change nothing; a run that starts has made such a
\* call, so it enters its fetch with nothing tracked.
C29_TeardownIdempotent ==
    [][CleanupCalled =>
          /\ TrackedClear'
          /\ \A removeThrows, unsubThrows \in BOOLEAN :
                cleanupStreamerWith(Globals', removeThrows, unsubThrows) = Globals']_vars

\* A cleanup in which removeEventListener threw: nothing is tracked, the
\* listener is still registered.
C29_Witness ==
    /\ lastCleanup.called
    /\ lastCleanup.remove
    /\ TrackedClear
    /\ lastCleanup.handler \in feedListeners

\* ------------------------------------------- properties of the windows
\* C30: a step in which the feed delivers a message changes the delta maps
\* and the open-interest stores and nothing else of the runs, the feed, the
\* responses, the cache or the history; a run leaves its Phase-1 or Phase-2
\* window only in a step in which the timer of that window fires.
C30_OnlyTimersAdvance ==
    [][/\ msgCount' # msgCount =>
             UNCHANGED <<pc, progress, filtered, chain, globalVars, reqVars, skewCache, history>>
       /\ \A r \in RunIds :
             /\ (pc[r] = "p1wait" /\ pc'[r] # "p1wait") =>
                   (<<r, 1>> \in timers /\ <<r, 1>> \notin timers')
             /\ (pc[r] = "p2wait" /\ pc'[r] # "p2wait") =>
                   (<<r, 2>> \in timers /\ <<r, 2>> \notin timers')]_vars

\* A run has all the open interest a result needs and is still waiting for
\* its Phase-2 timer.
C30_Witness ==
    \E r \in RunIds :
        /\ pc[r] = "p2wait"
        /\ <<r, 2>> \in timers
        /\ phase2Resolves(dataStore[r])

\* --------------------------------------- properties of the two windows
\* The filter step of run r raised the no-candidates error.
SelectionFailed(r) ==
    /\ heldAtEnd[r].ended
    /\ LastEvent(r) = ErrorEvent("No options found in the 10-30 delta range")

\* C31: when the strike selection of a run fails, the run has, at the time
\* the failure is raised, neither its Phase-1 listener nor any of its Phase-1
\* subscriptions left on the feed.
C31_Phase1ReleasedBeforeSelection ==
    \A r \in RunIds :
        SelectionFailed(r) => ~heldAtEnd[r].listener /\ ~heldAtEnd[r].subs

\* ------------------------------------------- recording in the windows
\* One single-symbol request whose windows receive events of both shapes,
\* with zero and out-of-range values; every delivered event is logged.
WindowMsgs ==
    { <<Greeks("C1", 20), Greeks("P1", -20)>>,
      <<Greeks("C1", 25), Greeks("P1", -20), Greeks("C1", 0)>>,
      <<Greeks("C1", 20), GreeksNested("C1", 0)>>,
      <<GreeksNested("P1", -25), GreeksNested("C2", 15)>>,
      <<Greeks("C1", 20), Greeks("C1", 150)>>,
      <<GreeksNoDelta("C1"), Greeks("Z", 20)>>,
      <<Summary("C1", 100), Summary("P1", 150)>>,
      <<Summary("C1", 100), Summary("P1", 150), Summary("C1", 0)>>,
      <<Summary("C1", 100), Summary("P1", 150), SummaryNested("C1", 0)>>,
      <<SummaryNested("P1", 40), SummaryNested("C1", 60)>>,
      <<Summary("Z", 70), Summary("C2", 10)>> }

\* The listeners a message is handed to: those of runs inside their window.
Hearing == {l \in feedListeners : pc[l[1]] = IF l[2] = 1 THEN "p1wait" ELSE "p2wait"}

HeardMessage(json) ==
    /\ Deliver(json)
    /\ heard' = heard \o [i \in 1..Len(json) |-> [to |-> Hearing, ev |-> json[i]]]

NextWindow ==
    \/ \E symbol \in Symbols : RequestSingle("r1", symbol)
    \/ FetchReturn(SingleRun("r1"), "ok")
    \/ ConnectReturn(SingleRun("r1"), TRUE)
    \/ Phase1Timer(SingleRun("r1"))
    \/ Phase2Timer(SingleRun("r1"))
    \/ \E json \in WindowMsgs : HeardMessage(json)

SpecWindow == Init /\ [][NextWindow]_vars

\* The value an event carries in field f, inside e[outer] or at top level:
\* <<x>>, or <<>> when it carries none.
Carried(e, outer, f) ==
    IF outer \in DOMAIN e /\ f \in DOMAIN e[outer] THEN <<e[outer][f]>>
    ELSE IF f \in DOMAIN e THEN <<e[f]>>
    ELSE <<>>
IsGreekEvent(e) == e.eventType = "Greeks" \/ "greeks" \in DOMAIN e
IsOiEvent(e) == e.eventType \in {"Summary", "Quote"} \/ "summary" \in DOMAIN e
CarriedDelta(e) == Carried(e, "greeks", "delta")
CarriedOi(e) == Carried(e, "summary", "openInterest")
\* A delta inside [-1, 1].
InDeltaDomain(d) == d >= -100 /\ d <= 100

\* The positions of the log at which the Phase-1 listener of run r received
\* a greek event for id with a delta of the domain.
GreekEventsFor(r, id) ==
    {i \in DOMAIN heard :
        /\ <<r, 1>> \in heard[i].to
        /\ heard[i].ev.eventSymbol = id
        /\ IsGreekEvent(heard[i].ev)
        /\ CarriedDelta(heard[i].ev) # <<>>
        /\ InDeltaDomain(CarriedDelta(heard[i].ev)[1])}
\* The positions at which the Phase-2 listener of run r received a
\* summary/quote event for id that carries an open interest.
OiEventsFor(r, id) ==
    {i \in DOMAIN heard :
        /\ <<r, 2>> \in heard[i].to
        /\ heard[i].ev.eventSymbol = id
        /\ IsOiEvent(heard[i].ev)
        /\ CarriedOi(heard[i].ev) # <<>>}
Last(S) == CHOOSE i \in S : \A j \in S : j <= i

\* What the delta map of run r holds for id: <<d>> or <<>>.
RecordedDelta(r, id) ==
    IF \E j \in DOMAIN deltas[r] : deltas[r][j].symbol = id
    THEN <<DeltaOf(deltas[r], id)>> ELSE <<>>
\* What the Phase-2 store of run r holds as open interest of id.
StoredOi(r, id) ==
    IF id \in DOMAIN dataStore[r] /\ "oi" \in DOMAIN dataStore[r][id]
    THEN <<dataStore[r][id].oi>> ELSE <<>>

\* C32: the delta map of a run holds, for every identifier of its chain, the
\* delta of the last greek event its Phase-1 listener received for that
\* identifier among those carrying a delta inside [-1, 1] (a delta of 0
\* included), and nothing for any other identifier.
C32_LastDeltaWins ==
    \A r \in RunIds, id \in Ids :
        RecordedDelta(r, id) =
            IF id \in Range(chain[r]) /\ GreekEventsFor(r, id) # {}
            THEN CarriedDelta(heard[Last(GreekEventsFor(r, id))].ev)
            ELSE <<>>

\* C33: the Phase-2 store of a run holds entries for its selected
\* identifiers only, and the open interest of each is the one carried by the
\* last summary/quote event its Phase-2 listener received for it (a last
\* value of 0 included); this is what the aggregation reads when the timer
\* fires.
C33_LastOiWins ==
    \A r \in RunIds :
        /\ Phase2Begun(r) => DOMAIN dataStore[r] = SelCallSyms(r) \cup SelPutSyms(r)
        /\ \A id \in Ids :
              StoredOi(r, id) =
                  IF id \in DOMAIN dataStore[r] /\ OiEventsFor(r, id) # {}
                  THEN CarriedOi(heard[Last(OiEventsFor(r, id))].ev)
                  ELSE <<>>

\* Run r is inside its Phase-2 window: suspended there with its timer pending.
InPhase2Window(r) == pc[r] = "p2wait" /\ <<r, 2>> \in timers
\* The identifiers the feed is subscribed to.
SubscribedIds == {p[1] : p \in feedSubs}

TypesOf(r) == [i \in DOMAIN progress[r] |-> progress[r][i].type]
StageOrder == <<"chain", "phase1", "phase2", "result">>
IsPrefix(s, t) == Len(s) <= Len(t) /\ \A i \in DOMAIN s : s[i] = t[i]

\* C35: the events a run hands to onProgress are an initial part of chain,
\* phase1, phase2, result, each at most once and in this order, followed by
\* at most one error and nothing after it; a phase2 event is there only when
\* the selection has as many calls as puts and at least one of each.
C35_StageOrder ==
    \A r \in RunIds :
        /\ \E t \in {TypesOf(r)} :
              \/ IsPrefix(t, StageOrder)
              \/ /\ Len(t) >= 1
                 /\ t[Len(t)] = "error"
                 /\ IsPrefix(SubSeq(t, 1, Len(t) - 1), StageOrder)
        /\ "phase2" \in EventTypes(progress[r]) =>
              /\ Len(filtered[r].calls) = Len(filtered[r].puts)
              /\ Len(filtered[r].calls) >= 1

\* One run went through all four stages and another failed after a prefix
\* of them.
C35_Witness ==
    /\ \E r \in RunIds : TypesOf(r) = StageOrder
    /\ \E r \in RunIds : TypesOf(r) = <<"chain", "phase1", "error">>

\* ------------------------------------------ cache keys and instruments
\* Two single-symbol requests for symbols written in different ways; every
\* one of them has the cache key SPY or ES.
KeySymbols == {SPY, <<"s", "p", "y">>, SlashES, ES, <<"/", "e", "s">>}

NextKeys ==
    \/ \E q \in Reqs, symbol \in KeySymbols : RequestSingle(q, symbol)
    \/ \E r \in RunIds : FetchReturn(r, "ok")
    \/ \E r \in RunIds : ConnectReturn(r, TRUE)
    \/ \E r \in RunIds : Phase1Timer(r)
    \/ \E r \in RunIds : Phase2Timer(r)
    \/ \E json \in Messages : FeedMessage(json)

SpecKeys == Init /\ [][NextKeys]_vars

\* Request q was answered from the cache.
ServedFromCache(q) ==
    reqKind[q] = "single" /\ \E i \in DOMAIN sent[q] : sent[q][i] = Frame("cached")

\* C36: a request answered from the cache gets a result that was computed
\* for a symbol of the same instrument classification and the same chain
\* lookup as the symbol it asked for.
C36_SameInstrumentOnHit ==
    \A q \in Reqs :
        ServedFromCache(q) =>
            LET entry == skewCache[getCacheKey(reqSymbols[q][1])]
            IN (entry.present /\ entry.by # <<>>) =>
                  chainLookup(SymbolOf(entry.by)) = chainLookup(reqSymbols[q][1])

\* ------------------------------------------- properties of isolation
\* A step of the 'close' handler of request q, and a step of POST /cleanup.
CloseStepOf(q) == closeState[q] = "armed" /\ closeState'[q] = "fired"
CleanupStep ==
    /\ UNCHANGED <<pc, reqState, closeState, msgCount>>
    /\ <<timers, feedListeners, feedSubs>>' # <<timers, feedListeners, feedSubs>>
\* The step leaves what run r has on the feed and its timers as they are.
KeepsHeld(r) ==
    /\ \A ph \in {1, 2} :
          /\ <<r, ph>> \in timers => <<r, ph>> \in timers'
          /\ <<r, ph>> \in feedListeners => <<r, ph>> \in feedListeners'
    /\ \A p \in feedSubs : p[2][1] = r => p \in feedSubs'

\* C37: a step of the close handler of a request, or of the cleanup
\* endpoint, clears no timer, removes no listener and unsubscribes no
\* identifier of a run of a different request that is still open.
C37_TeardownIsolated ==
    [][/\ \A q \in Reqs :
             CloseStepOf(q) =>
                \A r \in RunIds :
                    (ReqOf(r) # q /\ reqState[ReqOf(r)] = "open") => KeepsHeld(r)
       /\ CleanupStep =>
             \A r \in RunIds : reqState[ReqOf(r)] = "open" => KeepsHeld(r)]_vars

\* At least one run was started and every started run has gone through its
\* final cleanup.
AllRunsFinished ==
    /\ \E r \in RunIds : pc[r] = "done"
    /\ \A r \in RunIds : pc[r] \in {"idle", "done"}
\* The Phase-1 timer of run r fires in this step.
Phase1Fires(r) == <<r, 1>> \in timers /\ pc[r] = "p1wait" /\ pc'[r] # "p1wait"

\* C38: once every started run has finished its final cleanup the feed has
\* no listener and no subscription left, and a step in which the Phase-1
\* timer of a run fires removes no listener other than that run's own.
C38_NoLeak ==
    /\ [](AllRunsFinished => feedListeners = {} /\ feedSubs = {})
    /\ [][\A r \in RunIds :
             Phase1Fires(r) => (feedListeners \ feedListeners') \subseteq {<<r, 1>>}]_vars

\* ------------------------------------------ properties of the empty chain
\* Chain resolution of run r succeeded with an empty list of identifiers.
EmptyChain(r) == ChainEvent \in Range(progress[r]) /\ chain[r] = <<>>
\* The step in which run r learns that its chain is empty.
EmptyChainStep(r) == pc[r] = "fetch" /\ EmptyChain(r)'

\* C39: a run whose chain resolves to an empty list of identifiers has
\* ended with the chain event followed by the no-symbols error and never has
\* a subscription, a listener or a timer; the step in which it ends connects
\* nothing, adds no subscription, listener or timer of any run, and leaves
\* the cache as it is.
C39_EmptyChainEndsRun ==
    /\ [](\A r \in RunIds :
             EmptyChain(r) =>
                /\ pc[r] = "done"
                /\ progress[r] = <<ChainEvent, ErrorEvent("No symbols found in option chain")>>
                /\ ~heldAtEnd[r].subs /\ ~heldAtEnd[r].listener /\ ~heldAtEnd[r].timer
                /\ \A ph \in {1, 2} : <<r, ph>> \notin timers \cup feedListeners
                /\ \A p \in feedSubs : p[2][1] # r
                /\ deltas[r] = <<>> /\ dataStore[r] = EmptyMap)
    /\ [][\A r \in RunIds :
             EmptyChainStep(r) =>
                /\ feedConnected' => feedConnected
                /\ feedSubs' \subseteq feedSubs
                /\ feedListeners' \subseteq feedListeners
                /\ timers' \subseteq timers
                /\ skewCache' = skewCache]_vars

\* A run has ended on an empty chain while another run is inside a window.
C39_Witness ==
    \E r, o \in RunIds :
        /\ EmptyChain(r)
        /\ pc[r] = "done"
        /\ pc[o] \in {"p1wait", "p2wait"}

\* ------------------------------------- properties of a gone client
\* C40: in a step taken after the 'close' handler of a request has fired,
\* no run of that request writes the cache or hands a snapshot to the
\* history store.
C40_NoWriteAfterDisconnect ==
    [][\A q \in Reqs :
          closeState[q] = "fired" =>
             /\ \A k \in CacheKeys :
                   (skewCache'[k] # skewCache[k] /\ skewCache'[k].present) =>
                      (skewCache'[k].by = <<>> \/ ReqOf(skewCache'[k].by) # q)
             /\ \A snap \in history' \ history : ReqOf(snap.run) # q]_vars
====
